---- MODULE Spec2Model ----
(***************************************************************************)
(* Model of go-codegenutil: the import registry (codegenutil.FileImports), *)
(* symbol formatting, the two-phase template render (codetemplate) and the *)
(* unused-import pruner (unusedimports).                                   *)
(*                                                                         *)
(* Go strings are modelled as sequences of one-character strings, so that  *)
(* concatenation, prefixes, path segments and number formatting are        *)
(* computed as the code computes them.                                     *)
(***************************************************************************)
EXTENDS Integers, Sequences, FiniteSets, TLC

\* ------------------------------------------------------------------ bounds

\* number of goroutines that share the one registry
NumProcs == 2
\* cap on the number of ImportSpecs in the registry (keeps the run finite)
MaxSpecs == 3
\* most calls a custom suggester makes to tryImportSpec in one Add
MaxSuggest == 2
\* most segments of an import path given to AssumedPackageName
MaxSegments == 3

\* ------------------------------------------------------------------ strings

Digits == <<"0", "1", "2", "3", "4", "5", "6", "7", "8", "9">>
DigitSet == {Digits[i] : i \in 1..10}
LowerSet == {"a", "b", "c", "e", "f", "g", "h", "i", "k", "l", "m", "n", "o",
             "p", "r", "s", "t", "u", "v", "x", "y", "z"}
UpperSet == {"B", "M", "O", "X"}

\* strconv.Itoa / fmt "%d" of a non-negative integer
RECURSIVE Itoa(_)
Itoa(n) == IF n < 10 THEN <<Digits[n + 1]>>
           ELSE Itoa(n \div 10) \o <<Digits[(n % 10) + 1]>>

\* strings.HasPrefix
HasPrefix(s, prefix) ==
    /\ Len(prefix) <= Len(s)
    /\ SubSeq(s, 1, Len(prefix)) = prefix

\* strings.TrimPrefix
TrimPrefix(s, prefix) ==
    IF HasPrefix(s, prefix) THEN SubSeq(s, Len(prefix) + 1, Len(s)) ELSE s

\* index of the last "/" in s, 0 when there is none (strings.LastIndex + 1)
LastSlash(s) ==
    LET idx == {i \in 1..Len(s) : s[i] = "/"}
    IN  IF idx = {} THEN 0 ELSE CHOOSE i \in idx : \A j \in idx : j <= i

\* s without its trailing slashes
RECURSIVE StripTrailingSlashes(_)
StripTrailingSlashes(s) ==
    IF Len(s) > 0 /\ s[Len(s)] = "/"
    THEN StripTrailingSlashes(SubSeq(s, 1, Len(s) - 1))
    ELSE s

\* path.Base
PathBase(p) ==
    IF p = <<>> THEN <<".">>
    ELSE LET q == StripTrailingSlashes(p)
             b == SubSeq(q, LastSlash(q) + 1, Len(q))
         IN  IF b = <<>> THEN <<"/">> ELSE b

\* path.Dir, for paths that are already clean (no "." or ".." segments and
\* no doubled slashes): everything before the last slash
PathDir(p) ==
    LET i == LastSlash(p)
        d == StripTrailingSlashes(SubSeq(p, 1, i))
    IN  IF i = 0 THEN <<".">>
        ELSE IF d = <<>> THEN <<"/">> ELSE d

\* strconv.Atoi succeeds: an optional sign followed by at least one digit
AtoiOk(s) ==
    LET body == IF Len(s) > 0 /\ s[1] \in {"+", "-"}
                THEN SubSeq(s, 2, Len(s)) ELSE s
    IN  /\ Len(body) > 0
        /\ \A i \in 1..Len(body) : body[i] \in DigitSet

\* notIdentifier of AssumedPackageName, over the characters of the model
notIdentifier(ch) ==
    ~(ch \in LowerSet \/ ch \in UpperSet \/ ch \in DigitSet \/ ch = "_")

\* strings.IndexFunc(s, notIdentifier) + 1, 0 when no character matches
IndexNotIdentifier(s) ==
    LET idx == {i \in 1..Len(s) : notIdentifier(s[i])}
    IN  IF idx = {} THEN 0 ELSE CHOOSE i \in idx : \A j \in idx : i <= j

\* the characters of the model in byte order
CharOrder == <<"+", "-", ".", "/",
               "0", "1", "2", "3", "4", "5", "6", "7", "8", "9",
               "B", "M", "O", "X", "_",
               "a", "b", "c", "e", "f", "g", "h", "i", "k", "l", "m", "n", "o",
               "p", "r", "s", "t", "u", "v", "x", "y", "z">>

Ord(ch) == CHOOSE i \in 1..Len(CharOrder) : CharOrder[i] = ch

\* a < b for Go strings (byte-wise lexicographic order)
RECURSIVE StrLess(_, _)
StrLess(a, b) ==
    IF b = <<>> THEN FALSE
    ELSE IF a = <<>> THEN TRUE
    ELSE IF Head(a) # Head(b) THEN Ord(Head(a)) < Ord(Head(b))
    ELSE StrLess(Tail(a), Tail(b))

\* ------------------------------------------------------------------ packages

\* Package{importPath, name}
Package(importPath, name) == [importPath |-> importPath, name |-> name]

\* the name AssumedPackageName derives from the import path
AssumedName(importPath) ==
    LET base0 == PathBase(importPath)
        base1 == IF /\ HasPrefix(base0, <<"v">>)
                    /\ AtoiOk(SubSeq(base0, 2, Len(base0)))
                    /\ PathDir(importPath) # <<".">>
                 THEN PathBase(PathDir(importPath))
                 ELSE base0
        base2 == TrimPrefix(base1, <<"g", "o", "-">>)
        i     == IndexNotIdentifier(base2)
    IN  IF i > 0 THEN SubSeq(base2, 1, i - 1) ELSE base2

AssumedPackageName(importPath) == Package(importPath, AssumedName(importPath))

ExplicitPackageName(importPath, packageName) == Package(importPath, packageName)

\* the import paths and names the callers use
S_math    == <<"m", "a", "t", "h">>
S_altmath == <<"a", "l", "t", "e", "r", "n", "a", "t", "i", "v", "e", "/",
               "m", "a", "t", "h">>
S_foobar  == <<"f", "o", "o", "/", "b", "a", "r">>
S_baz     == <<"b", "a", "z">>
S_Max     == <<"M", "a", "x">>
S_blank   == <<"_">>
S_math1   == <<"m", "a", "t", "h", "1">>

\* the package of the generated file
FilePackage ==
    AssumedPackageName(<<"a", "b", "c", ".", "x", "y", "z", "/",
                         "m", "y", "p", "k", "g">>)

\* the Package values that callers pass to the registry: names inferred
\* from the path, and names given explicitly (one of them a second Package
\* value for the path "math" with another declared name)
Packages ==
    { AssumedPackageName(S_math),
      AssumedPackageName(S_altmath),
      ExplicitPackageName(S_foobar, S_math1),
      ExplicitPackageName(S_math, S_baz),
      FilePackage }

\* ------------------------------------------------------------------ registry

VARIABLES
    fi,        \* the shared *FileImports: filePackage, specs,
               \* byLocalPackageName, byImportPath, suggestPackageNames
    rwMutex,   \* fi.rwMutex: the goroutine holding the write lock (0: none)
               \* and the set of goroutines holding a read lock
    pc,        \* per goroutine: the point it has reached in its call
    call,      \* per goroutine: the call in progress (operation, arguments)
    ret,       \* per goroutine: the result of its last completed call
    returned,  \* history: import path -> the ImportSpecs that calls of Add
               \* for that path have returned so far
    tmpl,      \* the parsed *Template: its nodes and whether it prunes
    exec,      \* the Execute call in progress: its phase, data, the nodes
               \* still to execute and the texts built so far
    wr,        \* the text written to the caller's writer
    file,      \* the source text handed to PruneUnparsed
    pruned,    \* what PruneUnparsed returned for it: the error and the text
    renders    \* Execute calls that run side by side on one template, each
               \* with its own registry, and the printer of the template

\* the variables of the registry and its callers, and those of a render
rvars == <<fi, rwMutex, pc, call, ret, returned>>
xvars == <<tmpl, exec, wr, renders>>
pvars == <<file, pruned>>
vars == <<fi, rwMutex, pc, call, ret, returned, tmpl, exec, wr, file, pruned,
          renders>>

Procs == 1..NumProcs

\* the nil *ImportSpec
NoSpec == [id |-> 0, fileLocalPackageName |-> <<>>,
           pkg |-> Package(<<>>, <<>>), isExplicit |-> FALSE]

\* &ImportSpec{suggestedPackageName, pkg, isExplicit}; id stands for the
\* address of the allocated struct
ImportSpec(id, localName, pkg, isExplicit) ==
    [id |-> id, fileLocalPackageName |-> localName, pkg |-> pkg,
     isExplicit |-> isExplicit]

EmptyMap == [k \in {} |-> NoSpec]

\* m[k] of a Go map of *ImportSpec: nil for a missing key
MapGet(m, k) == IF k \in DOMAIN m THEN m[k] ELSE NoSpec

\* an assignment that makes a new map with the one key
MapPutAlone(m, k, v) == [x \in {k} |-> v]

\* m[k] = v
MapPut(m, k, v) == [x \in DOMAIN m \cup {k} |-> IF x = k THEN v ELSE m[x]]

\* NewFileImports(p, opts...) with no imports added; suggester is "nil" (the
\* default is used) or "custom" (CustomPackageNameSuggester was applied)
NewFileImports(p, suggester) ==
    [filePackage |-> p,
     specs |-> <<>>,
     byLocalPackageName |-> EmptyMap,
     byImportPath |-> EmptyMap,
     suggestPackageNames |-> suggester]

\* Add without its early return: the lookup finds nothing
ExistingSpecNone(f, pkg) == NoSpec

\* the existing-spec lookup at the top of Add
ExistingSpec(f, pkg) == MapGet(f.byImportPath, pkg.importPath)

\* the callback without its conflict test
ConflictsNever(f, suggestedPackageName) == FALSE

\* the conflict test of the callback Add passes to the suggester
Conflicts(f, suggestedPackageName) ==
    suggestedPackageName \in DOMAIN f.byLocalPackageName

\* The callback Add passes to the suggester. st is the state the closure
\* works on: the registry, the captured finalSpec, and the value returned
\* by the latest call (acceptable).
tryImportSpec(st, pkg, suggestedPackageName) ==
    IF Conflicts(st.fi, suggestedPackageName)
    THEN [st EXCEPT !.acceptable = FALSE]
    ELSE LET isExplicit == suggestedPackageName # pkg.name
             spec == ImportSpec(Len(st.fi.specs) + 1, suggestedPackageName,
                                pkg, isExplicit)
         IN  [fi |-> [st.fi EXCEPT
                        !.byLocalPackageName =
                            MapPut(@, suggestedPackageName, spec),
                        !.byImportPath = MapPut(@, pkg.importPath, spec),
                        !.specs = Append(@, spec)],
              finalSpec |-> spec,
              acceptable |-> TRUE]

\* const maxIterations of defaultSuggestPackageNames
maxIterations == 1000

\* the suffix loop of defaultSuggestPackageNames, from suffix on: the
\* callback refuses the names that are taken and changes nothing for them,
\* so the loop comes to the callback's call for the first free name, or
\* ends after maxIterations with every call refused
SuffixLoop(st, pkg, suffix) ==
    LET Taken(k) == Conflicts(st.fi, pkg.name \o Itoa(k))
    IN  IF \A k \in suffix..maxIterations : Taken(k)
        THEN [st EXCEPT !.acceptable = FALSE]
        ELSE LET first == CHOOSE k \in suffix..maxIterations :
                              /\ ~Taken(k)
                              /\ \A j \in suffix..(k - 1) : Taken(j)
             IN  tryImportSpec(st, pkg, pkg.name \o Itoa(first))

\* the default suggester with its suffix loop started at 2
defaultSuggestFromTwo(st, pkg) ==
    LET r == tryImportSpec(st, pkg, pkg.name)
    IN  IF r.acceptable THEN r ELSE SuffixLoop(r, pkg, 2)

defaultSuggestPackageNames(st, pkg) ==
    LET r == tryImportSpec(st, pkg, pkg.name)
    IN  IF r.acceptable THEN r ELSE SuffixLoop(r, pkg, 1)

\* A custom suggester is any function of the package and the callback: it
\* is modelled by the sequence of names it passes to the callback, whatever
\* the callback answers.
RECURSIVE customSuggestPackageNames(_, _, _)
customSuggestPackageNames(st, pkg, names) ==
    IF names = <<>> THEN st
    ELSE customSuggestPackageNames(tryImportSpec(st, pkg, Head(names)),
                                   pkg, Tail(names))

\* the sequences over names without a repeated name
SeqsNoRepeat(names) ==
    UNION {{q \in [1..n -> names] : \A i, j \in 1..n : i # j => q[i] # q[j]} :
              n \in 0..MaxSuggest}

\* The sequences of names a custom suggester may propose in one Add. The
\* callback answers a name it has already been given with false and no
\* effect (the name is taken by then, or was taken before), so sequences
\* that repeat a name add no behaviour.
SuggestionSeqs == SeqsNoRepeat({S_math, S_blank, S_baz})

\* ------------------------------------------------------------------ import block

\* Generated text is a sequence of chunks: opaque text ("text"), an
\* expression or printed value ("code", its characters in str), a
\* placeholder token of a template ("placeholder"), a package clause
\* ("package"), the opening and closing of an import declaration, one
\* line of it ("importline": the name before the path, empty when the line
\* has none, and the path) and an empty line ("blank").
Chunk(k, id, str, name, path) ==
    [k |-> k, id |-> id, str |-> str, name |-> name, path |-> path]

Text(id)       == Chunk("text", id, <<>>, <<>>, <<>>)
Code(str)      == Chunk("code", "", str, <<>>, <<>>)
PackageClause(name) == Chunk("package", "", <<>>, name, <<>>)
ImportOpen     == Chunk("importopen", "", <<>>, <<>>, <<>>)
ImportClose    == Chunk("importclose", "", <<>>, <<>>, <<>>)
ImportLine(name, path) == Chunk("importline", "", <<>>, name, path)
Blank          == Chunk("blank", "", <<>>, <<>>, <<>>)

\* xs with x inserted before the first element whose import path is
\* greater (the less function of List's sort.Slice)
RECURSIVE InsertByPath(_, _)
InsertByPath(xs, x) ==
    IF xs = <<>> THEN <<x>>
    ELSE IF StrLess(x.pkg.importPath, Head(xs).pkg.importPath)
         THEN <<x>> \o xs
         ELSE <<Head(xs)>> \o InsertByPath(Tail(xs), x)

RECURSIVE SortByPath(_)
SortByPath(xs) ==
    IF xs = <<>> THEN <<>>
    ELSE InsertByPath(SortByPath(SubSeq(xs, 1, Len(xs) - 1)), xs[Len(xs)])

\* List without its sort: the specs in the order of registration
ListUnsorted(f) == f.specs

\* fi.List(): a copy of specs, sorted by import path
List(f) == SortByPath(f.specs)

\* the sections of String() one after the other, with nothing between two
RECURSIVE JoinSectionsTight(_)
JoinSectionsTight(sections) ==
    IF sections = <<>> THEN <<>>
    ELSE Head(sections) \o JoinSectionsTight(Tail(sections))

\* strings.Join of the sections of String(): an empty line between two
RECURSIVE JoinSections(_)
JoinSections(sections) ==
    IF sections = <<>> THEN <<>>
    ELSE IF Len(sections) = 1 THEN Head(sections)
    ELSE Head(sections) \o <<Blank>> \o JoinSections(Tail(sections))

\* fi.String(): the import declaration with the sections of unaliased,
\* aliased and "_" imports; a line carries the local name only when the
\* spec is explicit
String(f) ==
    LET imports == List(f)
        IsBlank(i)   == i.isExplicit /\ i.fileLocalPackageName = S_blank
        IsAliased(i) == i.isExplicit /\ i.fileLocalPackageName # S_blank
        IsSimple(i)  == ~i.isExplicit
        Named(xs)  == [n \in 1..Len(xs) |->
                         ImportLine(xs[n].fileLocalPackageName,
                                    xs[n].pkg.importPath)]
        Simple(xs) == [n \in 1..Len(xs) |->
                         ImportLine(<<>>, xs[n].pkg.importPath)]
        simpleLines  == Simple(SelectSeq(imports, IsSimple))
        aliasedLines == Named(SelectSeq(imports, IsAliased))
        blankLines   == Named(SelectSeq(imports, IsBlank))
        NonEmpty(lines) == lines # <<>>
        sections == SelectSeq(<<simpleLines, aliasedLines, blankLines>>, NonEmpty)
    IN  <<ImportOpen>> \o JoinSections(sections) \o <<ImportClose>>

\* fi.Format(includePackageClause): String(), after the package clause of
\* the file and an empty line when the clause is asked for
Format(f, includeHeader) ==
    IF includeHeader
    THEN <<PackageClause(f.filePackage.name), Blank>> \o String(f)
    ELSE String(f)

\* ------------------------------------------------------------------ calls

\* a lock that excludes nobody
CanLockAlways(m) == TRUE

\* sync.RWMutex: Lock succeeds when nobody holds the lock
CanLock(m) == m.w = 0 /\ m.r = {}

\* sync.RWMutex: RLock succeeds when no writer holds the lock
CanRLock(m) == m.w = 0

\* a call: the operation, the Package argument (of a symbol: its package),
\* the symbol's name and the alias argument of Add
Call(op, pkg, name, alias) ==
    [op |-> op, pkg |-> pkg, name |-> name, alias |-> alias]

NoCall == Call("none", Package(<<>>, <<>>), <<>>, <<>>)
NoRet  == [kind |-> "none", spec |-> NoSpec, str |-> <<>>, list |-> <<>>]

RetSpec(spec)  == [NoRet EXCEPT !.kind = "spec", !.spec = spec]
RetStr(str)    == [NoRet EXCEPT !.kind = "string", !.str = str]
RetStrOf(spec, str) == [NoRet EXCEPT !.kind = "string", !.spec = spec, !.str = str]
RetList(list)  == [NoRet EXCEPT !.kind = "list", !.list = list]
\* Add returning nil where it panics
RetNil         == [NoRet EXCEPT !.kind = "spec"]
\* the panic of Add, which no caller recovers
RetPanic       == [NoRet EXCEPT !.kind = "panic"]

\* the qualified name built from the declared name of the package
QualifiedNameDeclared(spec, name) == spec.pkg.name \o <<".">> \o name

\* imports.Add(pkg, "").FileLocalPackageName() + "." + s.Name()
QualifiedName(spec, name) == spec.fileLocalPackageName \o <<".">> \o name

\* what the call in progress hands to its caller once Add has its spec: Add
\* returns the spec, FormatEnsureImported the qualified name built from it
AddResult(c, spec) ==
    IF c.op = "Format"
    THEN RetStrOf(spec, QualifiedName(spec, c.name))
    ELSE RetSpec(spec)

\* the import paths of the model
Paths == {pk.importPath : pk \in Packages}

\* no template parsed
NoTemplate == [nodes |-> <<>>, formatter |-> "nil"]

\* PruneUnparsed has not returned
NoResult == [state |-> "none", err |-> FALSE, out |-> <<>>]

\* no Execute call made yet
IdleExec ==
    [pc |-> "idle", data |-> <<>>, fresh |-> FALSE, todo |-> <<>>,
     pass1Buf |-> <<>>, withHeader |-> <<>>, formatted |-> <<>>,
     rendered |-> {}]

\* no Execute runs side by side with another: the printer of the parsed
\* template is the fmt.Fprint it was made with (0), and every render is idle
NoRenders ==
    [printer |-> 0,
     run |-> [id \in Procs |->
                 [pc |-> "idle", imports |-> NewFileImports(FilePackage, "nil"),
                  printer |-> 0, data |-> <<>>, todo |-> <<>>,
                  pass1Buf |-> <<>>, rendered |-> {}]]]

\* the state after NewFileImports(FilePackage, opts...): no call made yet
Init ==
    /\ \E sg \in {"nil", "custom"} : fi = NewFileImports(FilePackage, sg)
    /\ rwMutex = [w |-> 0, r |-> {}]
    /\ pc = [p \in Procs |-> "idle"]
    /\ call = [p \in Procs |-> NoCall]
    /\ ret = [p \in Procs |-> NoRet]
    /\ returned = [ip \in Paths |-> {}]
    /\ tmpl = NoTemplate
    /\ exec = IdleExec
    /\ wr = <<>>
    /\ file = <<>>
    /\ pruned = NoResult
    /\ renders = NoRenders

\* FormatEnsureImported without its test for the file's own package
IsFilePackageNever(f, pkg) == FALSE

\* the test at the top of FormatEnsureImported
IsFilePackage(f, pkg) == pkg.importPath = f.filePackage.importPath

\* ------------------------------------------------------------------ one caller

\* the goroutine of the sequential caller
Caller == 1

\* The body of Add between Lock and the deferred Unlock, on registry f:
\* the registry afterwards and finalSpec (nil: Add panics). names are the
\* names a custom suggester proposes. The alias argument is not read
\* anywhere in Add.
FileImportsAdd(f, pkg, alias, names) ==
    LET existingSpec == ExistingSpec(f, pkg)
        st == [fi |-> f, finalSpec |-> NoSpec, acceptable |-> FALSE]
    IN  IF existingSpec # NoSpec
        THEN [fi |-> f, finalSpec |-> existingSpec]
        ELSE LET r == IF f.suggestPackageNames = "nil"
                      THEN defaultSuggestPackageNames(st, pkg)
                      ELSE customSuggestPackageNames(st, pkg, names)
             IN  [fi |-> r.fi, finalSpec |-> r.finalSpec]

\* the history of returned specs after a call for pkg produced spec
Returned(pkg, spec) ==
    IF spec = NoSpec THEN returned
    ELSE [returned EXCEPT ![pkg.importPath] = @ \cup {spec}]

\* the suggestion sequences that matter to an Add of pkg on registry f: the
\* custom suggester is run only when pkg is not registered yet
SuggestionsFor(f, pkg) ==
    IF f.suggestPackageNames = "nil" \/ ExistingSpec(f, pkg) # NoSpec
    THEN {<<>>}
    ELSE SuggestionSeqs

\* the registry may grow: it is small, or it is about as large as the
\* number of names the default suggester tries
Room(f) ==
    \/ Len(f.specs) < MaxSpecs
    \/ /\ Len(f.specs) > maxIterations - MaxSpecs
       /\ Len(f.specs) < maxIterations + MaxSpecs

\* fi.Add(pkg, alias), start to end
Add(pkg, alias, names) ==
    /\ Room(fi) \/ pkg.importPath \in DOMAIN fi.byImportPath
    /\ LET r == FileImportsAdd(fi, pkg, alias, names)
       IN  /\ fi' = r.fi
           /\ ret' = [ret EXCEPT ![Caller] =
                         IF r.finalSpec = NoSpec THEN RetPanic
                         ELSE RetSpec(r.finalSpec)]
           /\ returned' = Returned(pkg, r.finalSpec)
    /\ call' = [call EXCEPT ![Caller] = Call("Add", pkg, <<>>, alias)]
    /\ UNCHANGED <<rwMutex, pc>>
    /\ UNCHANGED xvars
    /\ UNCHANGED pvars

\* sym.FormatEnsureImported(fi), start to end, for the symbol pkg.name
FormatEnsureImported(pkg, name, names) ==
    /\ \/ IsFilePackage(fi, pkg)
       \/ Len(fi.specs) < MaxSpecs
       \/ pkg.importPath \in DOMAIN fi.byImportPath
    /\ IF IsFilePackage(fi, pkg)
       THEN /\ ret' = [ret EXCEPT ![Caller] = RetStr(name)]
            /\ UNCHANGED <<fi, returned>>
       ELSE LET r == FileImportsAdd(fi, pkg, <<>>, names)
            IN  /\ fi' = r.fi
                /\ ret' = [ret EXCEPT ![Caller] =
                              IF r.finalSpec = NoSpec THEN RetPanic
                              ELSE RetStrOf(r.finalSpec,
                                       QualifiedName(r.finalSpec, name))]
                /\ returned' = Returned(pkg, r.finalSpec)
    /\ call' = [call EXCEPT ![Caller] = Call("Format", pkg, name, <<>>)]
    /\ UNCHANGED <<rwMutex, pc>>
    /\ UNCHANGED xvars
    /\ UNCHANGED pvars

\* fi.Find(pkg), start to end
Find(pkg) ==
    /\ ret' = [ret EXCEPT ![Caller] =
                  RetSpec(MapGet(fi.byImportPath, pkg.importPath))]
    /\ call' = [call EXCEPT ![Caller] = Call("Find", pkg, <<>>, <<>>)]
    /\ UNCHANGED <<fi, rwMutex, pc, returned>>
    /\ UNCHANGED xvars
    /\ UNCHANGED pvars

\* List sorting fi.specs itself instead of a copy
CallListInPlace(op) ==
    /\ ret' = [ret EXCEPT ![Caller] =
                  IF op = "List" THEN RetList(List(fi))
                  ELSE RetStr(String(fi))]
    /\ call' = [call EXCEPT ![Caller] = Call(op, NoCall.pkg, <<>>, <<>>)]
    /\ fi' = [fi EXCEPT !.specs = List(fi)]
    /\ UNCHANGED <<rwMutex, pc, returned>>
    /\ UNCHANGED xvars
    /\ UNCHANGED pvars

\* fi.List() or fi.String(), start to end
CallList(op) ==
    /\ ret' = [ret EXCEPT ![Caller] =
                  IF op = "List" THEN RetList(List(fi))
                  ELSE RetStr(String(fi))]
    /\ call' = [call EXCEPT ![Caller] = Call(op, NoCall.pkg, <<>>, <<>>)]
    /\ UNCHANGED <<fi, rwMutex, pc, returned>>
    /\ UNCHANGED xvars
    /\ UNCHANGED pvars

Next ==
    \/ \E pkg \in Packages, alias \in {<<>>, S_baz} :
            \E names \in SuggestionsFor(fi, pkg) : Add(pkg, alias, names)
    \/ \E pkg \in Packages :
            \E names \in SuggestionsFor(fi, pkg) :
                FormatEnsureImported(pkg, S_Max, names)
    \/ \E pkg \in Packages : Find(pkg)
    \/ \E op \in {"List", "String"} : CallList(op)

Spec == Init /\ [][Next]_vars

\* ------------------------------------------------------------------ name inference

\* the import paths given to AssumedPackageName: up to MaxSegments segments
\* joined by "/"; none of the segments is empty, "." or "..", so the paths
\* are clean
ImportPaths ==
    LET Segments == { <<"t", "o", "o", "l", "s">>,
                      <<"g", "o", "-", "t", "o", "o", "l", "s">>,
                      <<"g", "o", ".", "l", "a", "n", "g">>,
                      <<"g", "o", "-">>,
                      <<"x", "_", "y", "-", "z">>,
                      <<"v">>,
                      <<"v", "2">>,
                      <<"v", "1", "0">>,
                      <<"v", "2", "x">>,
                      <<"v", "-", "2">>,
                      <<"v", "+", "2">>,
                      <<"2", "v">> }
        RECURSIVE Join(_)
        Join(q) == IF Len(q) = 1 THEN q[1]
                   ELSE q[1] \o <<"/">> \o Join(Tail(q))
    IN  { Join(q) : q \in UNION { [1..n -> Segments] : n \in 1..MaxSegments } }

\* the caller is about to call AssumedPackageName(importPath)
InitName ==
    /\ fi = NewFileImports(FilePackage, "nil")
    /\ rwMutex = [w |-> 0, r |-> {}]
    /\ pc = [p \in Procs |-> "idle"]
    /\ \E importPath \in ImportPaths :
            call = [p \in Procs |->
                       IF p = Caller
                       THEN Call("AssumedPackageName", NoCall.pkg,
                                 importPath, <<>>)
                       ELSE NoCall]
    /\ ret = [p \in Procs |-> NoRet]
    /\ returned = [ip \in Paths |-> {}]
    /\ tmpl = NoTemplate
    /\ exec = IdleExec
    /\ wr = <<>>
    /\ file = <<>>
    /\ pruned = NoResult
    /\ renders = NoRenders

\* AssumedPackageName(importPath), start to end; the result is kept as the
\* package of the returned value
CallAssumedPackageName ==
    /\ call[Caller].op = "AssumedPackageName"
    /\ ret[Caller] = NoRet
    /\ ret' = [ret EXCEPT ![Caller] =
                  [NoRet EXCEPT !.kind = "package",
                                !.spec.pkg =
                                    AssumedPackageName(call[Caller].name)]]
    /\ UNCHANGED <<fi, rwMutex, pc, call, returned>>
    /\ UNCHANGED xvars
    /\ UNCHANGED pvars

SpecName == InitName /\ [][CallAssumedPackageName]_vars

\* ------------------------------------------------------------------ a full registry

\* strconv.Atoi of a string of digits
RECURSIVE Atoi(_)
Atoi(ds) ==
    IF ds = <<>> THEN 0
    ELSE 10 * Atoi(SubSeq(ds, 1, Len(ds) - 1))
            + (CHOOSE d \in 0..9 : Digits[d + 1] = ds[Len(ds)])

\* the i-th of the packages that fill the registry: all are named math by
\* AssumedPackageName
FillerPackage(i) ==
    AssumedPackageName(<<"m">> \o Itoa(i) \o <<"/", "m", "a", "t", "h">>)

\* the spec the default suggester makes for the i-th of them: the first is
\* math, the i-th math followed by i - 1
FillerSpec(i) ==
    ImportSpec(i, IF i = 1 THEN S_math ELSE S_math \o Itoa(i - 1),
               FillerPackage(i), i > 1)

\* the registry after Add(FillerPackage(i)) for i = 1 .. n, in this order
FullRegistry(n) ==
    [filePackage |-> FilePackage,
     specs |-> [i \in 1..n |-> FillerSpec(i)],
     byLocalPackageName |->
        [a \in {FillerSpec(i).fileLocalPackageName : i \in 1..n} |->
            FillerSpec(Atoi(SubSeq(a, Len(S_math) + 1, Len(a))) + 1)],
     byImportPath |->
        [ip \in {FillerPackage(i).importPath : i \in 1..n} |->
            FillerSpec(Atoi(SubSeq(ip, 2, Len(ip) - 5)))],
     suggestPackageNames |-> "nil"]

\* the packages added to the full registry
ExhaustPackages ==
    { AssumedPackageName(S_math),
      AssumedPackageName(S_altmath),
      ExplicitPackageName(S_foobar, S_math1),
      ExplicitPackageName(S_math, S_baz) }

\* a registry that holds the aliases math, math1, math2, ... up to or just
\* short of math followed by maxIterations
InitExhaust ==
    /\ \E n \in (maxIterations - 1)..(maxIterations + 1) : fi = FullRegistry(n)
    /\ rwMutex = [w |-> 0, r |-> {}]
    /\ pc = [p \in Procs |-> "idle"]
    /\ call = [p \in Procs |-> NoCall]
    /\ ret = [p \in Procs |-> NoRet]
    /\ returned = [ip \in Paths |-> {}]
    /\ tmpl = NoTemplate
    /\ exec = IdleExec
    /\ wr = <<>>
    /\ file = <<>>
    /\ pruned = NoResult
    /\ renders = NoRenders

NextExhaust == \E pkg \in ExhaustPackages : Add(pkg, <<>>, <<>>)

SpecExhaust == InitExhaust /\ [][NextExhaust]_vars

\* ------------------------------------------------------------------ concurrent callers

\* the Package values the concurrent callers pass
ConcPackages ==
    { AssumedPackageName(S_math),
      AssumedPackageName(S_altmath),
      FilePackage }

\* the sequences of names the custom suggester of the concurrent callers
\* may propose in one Add
ConcSuggestionSeqs == SeqsNoRepeat({S_math, S_blank})

\* a goroutine calls fi.Add(pkg, alias); the alias argument is not read
\* anywhere in Add
CallAdd(p, pkg, alias) ==
    /\ pc[p] = "idle"
    /\ Len(fi.specs) < MaxSpecs \/ pkg.importPath \in DOMAIN fi.byImportPath
    /\ pc' = [pc EXCEPT ![p] = "Add_Lock"]
    /\ call' = [call EXCEPT ![p] = Call("Add", pkg, <<>>, alias)]
    /\ UNCHANGED <<fi, rwMutex, ret, returned>>
    /\ UNCHANGED xvars
    /\ UNCHANGED pvars

\* sym.FormatEnsureImported(fi) for a symbol of the file's own package: the
\* bare name, without touching the registry or its lock
FormatLocal(p, pkg, name) ==
    /\ pc[p] = "idle"
    /\ IsFilePackage(fi, pkg)
    /\ ret' = [ret EXCEPT ![p] = RetStr(name)]
    /\ call' = [call EXCEPT ![p] = Call("Format", pkg, name, <<>>)]
    /\ pc' = [pc EXCEPT ![p] = "done"]
    /\ UNCHANGED <<fi, rwMutex, returned>>
    /\ UNCHANGED xvars
    /\ UNCHANGED pvars

\* sym.FormatEnsureImported(fi) for a symbol of another package: calls
\* imports.Add(s.Package(), "")
CallFormat(p, pkg, name) ==
    /\ pc[p] = "idle"
    /\ ~IsFilePackage(fi, pkg)
    /\ Len(fi.specs) < MaxSpecs \/ pkg.importPath \in DOMAIN fi.byImportPath
    /\ pc' = [pc EXCEPT ![p] = "Add_Lock"]
    /\ call' = [call EXCEPT ![p] = Call("Format", pkg, name, <<>>)]
    /\ UNCHANGED <<fi, rwMutex, ret, returned>>
    /\ UNCHANGED xvars
    /\ UNCHANGED pvars

\* fi.rwMutex.Lock() at the top of Add
AddLock(p) ==
    /\ pc[p] = "Add_Lock"
    /\ CanLock(rwMutex)
    /\ rwMutex' = [rwMutex EXCEPT !.w = p]
    /\ pc' = [pc EXCEPT ![p] = "Add_check"]
    /\ UNCHANGED <<fi, call, ret, returned>>
    /\ UNCHANGED xvars
    /\ UNCHANGED pvars

\* existingSpec := fi.byImportPath[pkg.ImportPath()]; return it if not nil
AddCheck(p) ==
    /\ pc[p] = "Add_check"
    /\ LET existingSpec == ExistingSpec(fi, call[p].pkg)
       IN  IF existingSpec # NoSpec
           THEN /\ ret' = [ret EXCEPT ![p] = AddResult(call[p], existingSpec)]
                /\ returned' = [returned EXCEPT ![call[p].pkg.importPath] =
                                   @ \cup {existingSpec}]
                /\ pc' = [pc EXCEPT ![p] = "Add_Unlock"]
           ELSE /\ pc' = [pc EXCEPT ![p] = "Add_suggest"]
                /\ UNCHANGED <<ret, returned>>
    /\ UNCHANGED <<fi, rwMutex, call>>
    /\ UNCHANGED xvars
    /\ UNCHANGED pvars

\* the end of Add once the suggester has returned: panic when finalSpec is
\* nil, else return finalSpec
AddFinish(p, st) ==
    /\ fi' = st.fi
    /\ IF st.finalSpec = NoSpec
       THEN /\ ret' = [ret EXCEPT ![p] = RetPanic]
            /\ UNCHANGED returned
       ELSE /\ ret' = [ret EXCEPT ![p] = AddResult(call[p], st.finalSpec)]
            /\ returned' = [returned EXCEPT ![call[p].pkg.importPath] =
                               @ \cup {st.finalSpec}]
    /\ pc' = [pc EXCEPT ![p] = "Add_Unlock"]
    /\ UNCHANGED <<rwMutex, call>>

\* the suggester run of Add with the default suggester
AddSuggestDefault(p) ==
    /\ pc[p] = "Add_suggest"
    /\ fi.suggestPackageNames = "nil"
    /\ AddFinish(p, defaultSuggestPackageNames(
                        [fi |-> fi, finalSpec |-> NoSpec, acceptable |-> FALSE],
                        call[p].pkg))
    /\ UNCHANGED xvars
    /\ UNCHANGED pvars

\* the suggester run of Add with a custom suggester
AddSuggestCustom(p, names) ==
    /\ pc[p] = "Add_suggest"
    /\ fi.suggestPackageNames = "custom"
    /\ AddFinish(p, customSuggestPackageNames(
                        [fi |-> fi, finalSpec |-> NoSpec, acceptable |-> FALSE],
                        call[p].pkg, names))
    /\ UNCHANGED xvars
    /\ UNCHANGED pvars

\* an Unlock at the end of Add that is not deferred: a panic passes it by
AddUnlockAtEnd(p) ==
    /\ pc[p] = "Add_Unlock"
    /\ rwMutex' = IF ret[p].kind = "panic" THEN rwMutex
                  ELSE [rwMutex EXCEPT !.w = 0]
    /\ pc' = [pc EXCEPT ![p] = "done"]
    /\ UNCHANGED <<fi, call, ret, returned>>
    /\ UNCHANGED xvars
    /\ UNCHANGED pvars

\* the deferred fi.rwMutex.Unlock() of Add; it runs on return and on panic
AddUnlock(p) ==
    /\ pc[p] = "Add_Unlock"
    /\ rwMutex' = [rwMutex EXCEPT !.w = 0]
    /\ pc' = [pc EXCEPT ![p] = "done"]
    /\ UNCHANGED <<fi, call, ret, returned>>
    /\ UNCHANGED xvars
    /\ UNCHANGED pvars

\* fi.Find(pkg): RLock
FindRLock(p, pkg) ==
    /\ pc[p] = "idle"
    /\ CanRLock(rwMutex)
    /\ rwMutex' = [rwMutex EXCEPT !.r = @ \cup {p}]
    /\ pc' = [pc EXCEPT ![p] = "Find_read"]
    /\ call' = [call EXCEPT ![p] = Call("Find", pkg, <<>>, <<>>)]
    /\ UNCHANGED <<fi, ret, returned>>
    /\ UNCHANGED xvars
    /\ UNCHANGED pvars

\* fi.Find(pkg): the lookup and the deferred RUnlock
FindRead(p) ==
    /\ pc[p] = "Find_read"
    /\ ret' = [ret EXCEPT ![p] = RetSpec(MapGet(fi.byImportPath,
                                                call[p].pkg.importPath))]
    /\ rwMutex' = [rwMutex EXCEPT !.r = @ \ {p}]
    /\ pc' = [pc EXCEPT ![p] = "done"]
    /\ UNCHANGED <<fi, call, returned>>
    /\ UNCHANGED xvars
    /\ UNCHANGED pvars

\* the caller has taken the result of its call and is ready for the next
Return(p) ==
    /\ pc[p] = "done"
    /\ pc' = [pc EXCEPT ![p] = "idle"]
    /\ call' = [call EXCEPT ![p] = NoCall]
    /\ ret' = [ret EXCEPT ![p] = NoRet]
    /\ UNCHANGED <<fi, rwMutex, returned>>
    /\ UNCHANGED xvars
    /\ UNCHANGED pvars

NextConc ==
    \/ \E p \in Procs, pkg \in ConcPackages : CallAdd(p, pkg, <<>>)
    \/ \E p \in Procs, pkg \in ConcPackages : FormatLocal(p, pkg, S_Max)
    \/ \E p \in Procs, pkg \in ConcPackages : CallFormat(p, pkg, S_Max)
    \/ \E p \in Procs : AddLock(p)
    \/ \E p \in Procs : AddCheck(p)
    \/ \E p \in Procs : AddSuggestDefault(p)
    \/ \E p \in Procs, names \in ConcSuggestionSeqs : AddSuggestCustom(p, names)
    \/ \E p \in Procs : AddUnlock(p)
    \/ \E p \in Procs, pkg \in ConcPackages : FindRLock(p, pkg)
    \/ \E p \in Procs : FindRead(p)
    \/ \E p \in Procs : Return(p)

SpecConc == Init /\ [][NextConc]_vars

\* ------------------------------------------------------------------ callers that wait

\* a goroutine calls fi.Find(pkg), fi.List() or fi.String() and reaches the
\* RLock of the call (String calls List)
CallRead(p, op, pkg) ==
    /\ pc[p] = "idle"
    /\ pc' = [pc EXCEPT ![p] = "Read_RLock"]
    /\ call' = [call EXCEPT ![p] = Call(op, pkg, <<>>, <<>>)]
    /\ UNCHANGED <<fi, rwMutex, ret, returned>>
    /\ UNCHANGED xvars
    /\ UNCHANGED pvars

\* fi.rwMutex.RLock() of Find and of List; the goroutine waits here while a
\* writer holds the lock, also when the writer is the goroutine itself
\* (sync.RWMutex is not reentrant)
ReadRLock(p) ==
    /\ pc[p] \in {"Read_RLock", "Sug_RLock"}
    /\ CanRLock(rwMutex)
    /\ rwMutex' = [rwMutex EXCEPT !.r = @ \cup {p}]
    /\ pc' = [pc EXCEPT ![p] = IF pc[p] = "Read_RLock" THEN "Read_read"
                                                        ELSE "Sug_read"]
    /\ UNCHANGED <<fi, call, ret, returned>>
    /\ UNCHANGED xvars
    /\ UNCHANGED pvars

\* the read under the lock and the RUnlock: Find looks the path up, List
\* copies fi.specs and sorts the copy, String formats the result of List;
\* a read made by the suggester returns to the suggester
ReadFinish(p) ==
    /\ pc[p] \in {"Read_read", "Sug_read"}
    /\ rwMutex' = [rwMutex EXCEPT !.r = @ \ {p}]
    /\ IF pc[p] = "Sug_read"
       THEN /\ pc' = [pc EXCEPT ![p] = "Sug_propose"]
            /\ UNCHANGED ret
       ELSE /\ pc' = [pc EXCEPT ![p] = "done"]
            /\ ret' = [ret EXCEPT ![p] =
                          IF call[p].op = "Find"
                          THEN RetSpec(MapGet(fi.byImportPath,
                                              call[p].pkg.importPath))
                          ELSE IF call[p].op = "List"
                          THEN RetList(List(fi))
                          ELSE RetStr(String(fi))]
    /\ UNCHANGED <<fi, call, returned>>
    /\ UNCHANGED xvars
    /\ UNCHANGED pvars

\* the suggester run of Add with a custom suggester that looks the package
\* up with fi.Find before it proposes the declared name: Add calls it with
\* the write lock held
AddSuggestLookup(p) ==
    /\ fi.suggestPackageNames = "lookup"
    /\ IF pc[p] = "Add_suggest"
       THEN /\ pc' = [pc EXCEPT ![p] = "Sug_RLock"]
            /\ UNCHANGED <<fi, rwMutex, call, ret, returned>>
       ELSE /\ pc[p] = "Sug_propose"
            /\ AddFinish(p, customSuggestPackageNames(
                               [fi |-> fi, finalSpec |-> NoSpec,
                                acceptable |-> FALSE],
                               call[p].pkg, <<call[p].pkg.name>>))
    /\ UNCHANGED xvars
    /\ UNCHANGED pvars

\* the packages the waiting callers pass
LivePackages == { AssumedPackageName(S_math), AssumedPackageName(S_altmath) }

InitLive ==
    /\ \E sg \in {"nil", "custom", "lookup"} :
            fi = NewFileImports(FilePackage, sg)
    /\ rwMutex = [w |-> 0, r |-> {}]
    /\ pc = [p \in Procs |-> "idle"]
    /\ call = [p \in Procs |-> NoCall]
    /\ ret = [p \in Procs |-> NoRet]
    /\ returned = [ip \in Paths |-> {}]
    /\ tmpl = NoTemplate
    /\ exec = IdleExec
    /\ wr = <<>>
    /\ file = <<>>
    /\ pruned = NoResult
    /\ renders = NoRenders

\* one step of a call that is in progress and does not wait for the lock
Proceed(p) ==
    \/ AddCheck(p)
    \/ AddSuggestDefault(p)
    \/ \E names \in ConcSuggestionSeqs : AddSuggestCustom(p, names)
    \/ AddSuggestLookup(p)
    \/ AddUnlock(p)
    \/ ReadFinish(p)

NextLive ==
    \/ \E p \in Procs, pkg \in LivePackages : CallAdd(p, pkg, <<>>)
    \/ \E p \in Procs, pkg \in LivePackages : CallRead(p, "Find", pkg)
    \/ \E p \in Procs, op \in {"List", "String"} : CallRead(p, op, NoCall.pkg)
    \/ \E p \in Procs : AddLock(p)
    \/ \E p \in Procs : ReadRLock(p)
    \/ \E p \in Procs : Proceed(p)
    \/ \E p \in Procs : Return(p)

\* fair scheduling: a goroutine that can take a step takes one, and a
\* goroutine that waits for the lock gets it when the lock is free again and
\* again (sync.RWMutex hands the lock to the goroutines that wait); nothing
\* makes a caller start a call or take its result
SpecLive ==
    /\ InitLive
    /\ [][NextLive]_vars
    /\ \A p \in Procs : WF_vars(Proceed(p))
    /\ \A p \in Procs : SF_vars(AddLock(p))
    /\ \A p \in Procs : SF_vars(ReadRLock(p))

\* ------------------------------------------------------------------ pruner

\* index of the first "." of s, 0 when there is none
DotIndex(s) ==
    LET idx == {i \in 1..Len(s) : s[i] = "."}
    IN  IF idx = {} THEN 0 ELSE CHOOSE i \in idx : \A j \in idx : i <= j

\* a Go identifier over the characters of the model
IsIdentifier(s) ==
    /\ s # <<>>
    /\ s[1] \notin DigitSet
    /\ \A i \in 1..Len(s) : ~notIdentifier(s[i])

\* the operands X and Sel of the innermost selector expression of the
\* expression a.b.c... in a code chunk, the only one whose X is an
\* identifier: X is a and Sel is b; X is empty when the expression is a
\* plain identifier
Selector(str) ==
    LET d    == DotIndex(str)
        rest == SubSeq(str, d + 1, Len(str))
        d2   == DotIndex(rest)
    IN  IF d = 0 THEN [x |-> <<>>, sel |-> str]
        ELSE [x |-> SubSeq(str, 1, d - 1),
              sel |-> IF d2 = 0 THEN rest ELSE SubSeq(rest, 1, d2 - 1)]

\* parser.ParseFile accepts the text: a package clause comes first (after
\* comments), no placeholder token is left, every expression is a chain of
\* identifiers joined by dots, every import declaration is closed
ParseOk(text) ==
    /\ \E i \in 1..Len(text) :
          /\ text[i].k = "package"
          /\ IsIdentifier(text[i].name)
          /\ \A j \in 1..(i - 1) : text[j].k \in {"text", "blank"}
    /\ \A i \in 1..Len(text) :
          /\ text[i].k # "placeholder"
          /\ text[i].k = "code" =>
                LET RECURSIVE IsChain(_)
                    IsChain(str) ==
                        LET d == DotIndex(str)
                        IN  IF d = 0 THEN IsIdentifier(str)
                            ELSE /\ IsIdentifier(SubSeq(str, 1, d - 1))
                                 /\ IsChain(SubSeq(str, d + 1, Len(str)))
                IN  IsChain(text[i].str)
          /\ text[i].k = "importopen" =>
                \E j \in (i + 1)..Len(text) :
                    /\ text[j].k = "importclose"
                    /\ \A n \in (i + 1)..(j - 1) :
                          text[n].k \in {"importline", "blank", "text"}
          /\ text[i].k = "importline" =>
                \E j \in 1..(i - 1) :
                    /\ text[j].k = "importopen"
                    /\ \A n \in (j + 1)..(i - 1) : text[n].k # "importclose"

\* the backquote character
Backquote == "backquote"

\* imp.Path.Value: the string literal of the path as written, with its
\* quotes
PathValue(line) ==
    IF line.id = "raw" THEN <<Backquote>> \o line.path \o <<Backquote>>
    ELSE <<"\"">> \o line.path \o <<"\"">>

\* strings.Trim(s, "\"")
RECURSIVE TrimQuotes(_)
TrimQuotes(s) ==
    IF s # <<>> /\ Head(s) = "\"" THEN TrimQuotes(Tail(s))
    ELSE IF s # <<>> /\ s[Len(s)] = "\"" THEN TrimQuotes(SubSeq(s, 1, Len(s) - 1))
    ELSE s

\* f.Imports of the parsed file: the name (empty: none) and the path
\* literal of every import line
FileImportsOf(text) ==
    LET lines == SelectSeq(text, LAMBDA c : c.k = "importline")
    IN  [n \in 1..Len(lines) |->
            [Name |-> lines[n].name, Value |-> PathValue(lines[n])]]

\* the parser has resolved identifier x to a declaration of the file
Resolved(text, x) ==
    \E i \in 1..Len(text) : text[i].k = "decl" /\ text[i].name = x

\* a test that takes every name for an exported one
IsExportedAny(name) == TRUE

\* ast.IsExported
IsExported(name) == name # <<>> /\ name[1] \in UpperSet

\* collectReferences: the left-hand sides X of the selector expressions
\* X.Sel with X an unresolved identifier and Sel exported
collectReferences(text) ==
    {Selector(text[i].str).x :
        i \in {n \in 1..Len(text) :
                  /\ text[n].k = "code"
                  /\ DotIndex(text[n].str) > 0
                  /\ ~Resolved(text, Selector(text[n].str).x)
                  /\ IsExported(Selector(text[n].str).sel)}}

\* collectImports without its exemptions
collectImportsAll(text) ==
    LET imps == FileImportsOf(text)
    IN  [n \in 1..Len(imps) |->
            [Name |-> imps[n].Name, ImportPath |-> TrimQuotes(imps[n].Value)]]

\* collectImports: importInfo{Name, ImportPath} of the imports other than
\* "C", _ and .
collectImports(text) ==
    LET kept == SelectSeq(FileImportsOf(text),
                    LAMBDA imp : ~(imp.Value = <<"\"", "C", "\"">>
                                     \/ imp.Name = S_blank
                                     \/ imp.Name = <<".">>))
    IN  [n \in 1..Len(kept) |->
            [Name |-> kept[n].Name, ImportPath |-> TrimQuotes(kept[n].Value)]]

\* pass.importIdentifier; knownPackages is never filled
importIdentifier(imp) ==
    IF imp.Name # <<>> THEN imp.Name ELSE AssumedName(imp.ImportPath)

\* existingImports of pruneAlreadyParsed: per identifier the last import
\* that introduces it
ExistingImports(imports) ==
    {imports[i] : i \in {n \in 1..Len(imports) :
        \A m \in (n + 1)..Len(imports) :
            importIdentifier(imports[m]) # importIdentifier(imports[n])}}

\* fixes that name every collected import
FixesAll(text) == ExistingImports(collectImports(text))

\* fixes of pruneAlreadyParsed: the imports to delete
Fixes(text) ==
    {imp \in ExistingImports(collectImports(text)) :
        importIdentifier(imp) \notin collectReferences(text)}

\* the lines of an import declaration after a deletion, as the printer sets
\* them: no empty line first, last or after another empty line
RECURSIVE TidyBlanks(_, _)
TidyBlanks(xs, afterLine) ==
    IF xs = <<>> THEN <<>>
    ELSE IF Head(xs).k = "blank"
         THEN IF afterLine /\ \E i \in 2..Len(xs) : xs[i].k = "importline"
              THEN <<Head(xs)>> \o TidyBlanks(Tail(xs), FALSE)
              ELSE TidyBlanks(Tail(xs), afterLine)
         ELSE <<Head(xs)>> \o TidyBlanks(Tail(xs), Head(xs).k = "importline")

\* index of the first importclose chunk of text
CloseIndex(text) ==
    CHOOSE i \in 1..Len(text) :
        /\ text[i].k = "importclose"
        /\ \A j \in 1..(i - 1) : text[j].k # "importclose"

\* astutil.DeleteNamedImport for every import in del, then printer.Fprint:
\* the matching lines are gone, and so is a declaration left without lines
RECURSIVE PrintWithout(_, _)
PrintWithout(text, del) ==
    IF text = <<>> THEN <<>>
    ELSE IF Head(text).k = "importopen"
    THEN LET n     == CloseIndex(text)
             block == SubSeq(text, 2, n - 1)
             kept  == SelectSeq(block, LAMBDA c :
                         ~(c.k = "importline" /\
                           [Name |-> c.name, ImportPath |-> c.path] \in del))
             lines == SelectSeq(kept, LAMBDA c : c.k = "importline")
             rest  == PrintWithout(SubSeq(text, n + 1, Len(text)), del)
         IN  IF kept = block
             THEN <<ImportOpen>> \o block \o <<ImportClose>> \o rest
             ELSE IF lines = <<>> THEN rest
             ELSE <<ImportOpen>> \o TidyBlanks(kept, FALSE)
                      \o <<ImportClose>> \o rest
    ELSE <<Head(text)>> \o PrintWithout(Tail(text), del)

\* astutil.DeleteNamedImport(fset, file, name, path) reports a deletion:
\* some import of the file has this name and this (unquoted) path
Deletes(text, imp) ==
    \E i \in 1..Len(text) :
        /\ text[i].k = "importline"
        /\ text[i].name = imp.Name
        /\ text[i].path = imp.ImportPath

\* pruneAlreadyParsed returns an error: a deletion is reported as failed
DeleteFails(text) == \E imp \in Fixes(text) : ~Deletes(text, imp)

\* a PruneUnparsed that returns, with the error of a failed deletion, the
\* text as far as it was pruned
PruneUnparsedPartial(src) ==
    IF ~ParseOk(src) THEN [err |-> TRUE, out |-> <<>>]
    ELSE [err |-> DeleteFails(src), out |-> PrintWithout(src, Fixes(src))]

\* PruneUnparsed(filename, src): the pruned text, or an error and no text
PruneUnparsed(src) ==
    IF ~ParseOk(src) THEN [err |-> TRUE, out |-> <<>>]
    ELSE IF DeleteFails(src) THEN [err |-> TRUE, out |-> <<>>]
    ELSE [err |-> FALSE, out |-> PrintWithout(src, Fixes(src))]

\* ------------------------------------------------------------------ pruner calls

\* most import lines in a source text handed to the pruner
MaxImports == 2

S_fmt    == <<"f", "m", "t">>
S_os     == <<"o", "s">>
S_bar    == <<"b", "a", "r">>
S_pkg    == <<"p", "k", "g">>
S_osOpen == <<"o", "s", ".", "O", "p", "e", "n">>

\* the import lines of the source texts: unnamed, named, two with the same
\* inferred name, the exempt ones and one whose path is a raw string literal
\* (between backquotes)
PruneLines ==
    { ImportLine(<<>>, S_fmt),
      ImportLine(<<>>, S_os),
      ImportLine(<<"x">>, S_bar),
      ImportLine(<<>>, S_bar),
      ImportLine(<<>>, S_foobar),
      ImportLine(S_blank, S_pkg),
      ImportLine(<<".">>, S_pkg),
      ImportLine(<<>>, <<"C">>),
      Chunk("importline", "raw", <<>>, <<>>, S_fmt) }

\* the import declarations: up to MaxImports different lines in any order
ImportSeqs ==
    UNION { {q \in [1..n -> PruneLines] :
                \A i, j \in 1..n : i # j => q[i] # q[j]} : n \in 0..MaxImports }

\* what the body of a source text may hold, in this order; the first is a
\* declaration of x at file scope, which the parser resolves
BodyParts ==
    << Chunk("decl", "", <<>>, <<"x">>, <<>>),
       Code(S_osOpen),
       Code(<<"x", ".", "B", "o", "o", "m">>),
       Code(<<"b", "a", "r", ".", "X">>),
       Code(<<"f", "m", "t", ".", "x">>),
       Code(<<"b", "a", "r", ".", "x", ".", "X">>) >>

\* the parts of BodyParts from index i on that mask selects
RECURSIVE PickParts(_, _)
PickParts(mask, i) ==
    IF i > Len(BodyParts) THEN <<>>
    ELSE (IF mask[i] THEN <<BodyParts[i]>> ELSE <<>>) \o PickParts(mask, i + 1)

\* the source texts handed to PruneUnparsed; one without package clause
\* does not parse
Files ==
    { (IF clause THEN <<PackageClause(<<"f", "o", "o">>)>> ELSE <<>>)
        \o (IF imps = <<>> THEN <<>>
            ELSE <<ImportOpen>> \o imps \o <<ImportClose>>)
        \o body :
      clause \in BOOLEAN, imps \in ImportSeqs,
      body \in {PickParts(mask, 1) : mask \in [1..Len(BodyParts) -> BOOLEAN]} }

\* a caller is about to hand a source text to PruneUnparsed
InitPrune ==
    /\ fi = NewFileImports(FilePackage, "nil")
    /\ rwMutex = [w |-> 0, r |-> {}]
    /\ pc = [p \in Procs |-> "idle"]
    /\ call = [p \in Procs |-> NoCall]
    /\ ret = [p \in Procs |-> NoRet]
    /\ returned = [ip \in Paths |-> {}]
    /\ tmpl = NoTemplate
    /\ exec = IdleExec
    /\ wr = <<>>
    /\ file \in Files
    /\ pruned = NoResult
    /\ renders = NoRenders

\* PruneUnparsed("", file), start to end
PruneCall ==
    /\ pruned.state = "none"
    /\ LET r == PruneUnparsed(file)
       IN  pruned' = [state |-> "returned", err |-> r.err, out |-> r.out]
    /\ UNCHANGED <<rvars, xvars, file>>

\* PruneUnparsed("", out) on the text a first call returned, start to end
PruneAgain ==
    /\ pruned.state = "returned"
    /\ ~pruned.err
    /\ file' = pruned.out
    /\ LET r == PruneUnparsed(pruned.out)
       IN  pruned' = [state |-> "again", err |-> r.err, out |-> r.out]
    /\ UNCHANGED <<rvars, xvars>>

SpecPrune == InitPrune /\ [][PruneCall \/ PruneAgain]_vars

\* ------------------------------------------------------------------ template render

\* A template is a sequence of nodes: literal text (chunks), the calls
\* {{header}} and {{imports}}, a field {{.key}} and a conditional
\* {{if .key}} body {{end}}.
Node(t, chunks, key, body) ==
    [t |-> t, chunks |-> chunks, key |-> key, body |-> body]

TextNode(chunks)  == Node("text", chunks, "", <<>>)
HeaderNode        == Node("header", <<>>, "", <<>>)
ImportsNode       == Node("imports", <<>>, "", <<>>)
FieldNode(key)    == Node("field", <<>>, key, <<>>)
IfNode(key, body) == Node("if", <<>>, key, body)

\* the values of the data map: a *Symbol, a bool, or no entry for the key
Value(v, pkg, name, b) == [v |-> v, pkg |-> pkg, name |-> name, b |-> b]
SymValue(pkg, name) == Value("sym", pkg, name, FALSE)
BoolValue(b)        == Value("bool", Package(<<>>, <<>>), <<>>, b)
Missing             == Value("missing", Package(<<>>, <<>>), <<>>, FALSE)

\* the template of TestTemplate_Execute
TestTemplate ==
    << TextNode(<<Text("// docs")>>),
       HeaderNode,
       TextNode(<<Text("var myThing = ")>>),
       FieldNode("mysym"),
       TextNode(<<Text("var myThing2 = ")>>),
       FieldNode("mysym2") >>

\* the template of Example_unusedImportPruning: a literal import of "log",
\* which only a conditional branch uses; the branch also formats a symbol
CondTemplate ==
    << HeaderNode,
       TextNode(<<ImportOpen, ImportLine(<<>>, <<"l", "o", "g">>), ImportClose>>),
       TextNode(<<Text("var result1 = ")>>),
       FieldNode("mysym"),
       IfNode("cond", << TextNode(<<Code(<<"l", "o", "g", ".", "X">>)>>),
                         FieldNode("mysym2") >>) >>

\* a template with its own package clause that calls {{imports}}
ImportsTemplate ==
    << TextNode(<<PackageClause(FilePackage.name)>>),
       ImportsNode,
       TextNode(<<Text("var x = ")>>),
       FieldNode("mysym2") >>

\* a template that calls {{imports}} twice and has no package clause: its output
\* is not a Go source file
BareTemplate ==
    << ImportsNode,
       TextNode(<<Text("var x = ")>>),
       FieldNode("mysym"),
       ImportsNode >>

\* Parse(tmplText, opts...): formatter is unusedimports.PruneUnparsed, or
\* nil with the option KeepUnusedImports
Templates ==
    {[nodes |-> n, formatter |-> f] :
        n \in {TestTemplate, CondTemplate, ImportsTemplate, BareTemplate},
        f \in {"PruneUnparsed", "nil"}}

\* the packages of the symbols in the data
ExecPackages ==
    { AssumedPackageName(S_math),
      AssumedPackageName(S_altmath),
      ExplicitPackageName(S_foobar, S_math1),
      FilePackage }

\* the data maps passed to Execute
Datas ==
    {[mysym |-> a, mysym2 |-> b, cond |-> c] :
        a \in {SymValue(pk, S_Max) : pk \in ExecPackages},
        b \in {SymValue(pk, S_Max) : pk \in ExecPackages} \cup {Missing},
        c \in {BoolValue(TRUE), BoolValue(FALSE)}}

\* the placeholder token of the template; str holds the parts of its
\* text, the last but one being the hash of the template text
Placeholder(which) ==
    Chunk("placeholder", which,
          IF which = "imports"
          THEN <<"<PLACEHOLDER FOR ", "IMPORTS ", "%x", ">">>
          ELSE <<"<PLACEHOLDER FOR ", "PACKAGE STATEMENT AND ", "IMPORTS ",
                 "%x", ">">>,
          <<>>, <<>>)

\* the functions "imports" and "header" of the template, evaluated
\* during pass 1 by mistake: the import block of that moment
PlaceholderEager(f, which) == Format(f, which = "header")

\* the functions "imports" and "header" Parse installs: they return the
\* placeholder token, whatever the registry holds
PlaceholderFunc(f, which) == <<Placeholder(which)>>

\* s.FormatEnsureImported(imports) as a function: the registry afterwards,
\* the spec used (nil for a symbol of the file's package) and the string
FormatSymbol(f, pkg, name) ==
    IF IsFilePackage(f, pkg)
    THEN [fi |-> f, spec |-> NoSpec, str |-> name, panic |-> FALSE]
    ELSE LET r == FileImportsAdd(f, pkg, <<>>, <<>>)
         IN  [fi |-> r.fi, spec |-> r.finalSpec,
              str |-> QualifiedName(r.finalSpec, name),
              panic |-> r.finalSpec = NoSpec]

\* sym.GoCode(imports)
GoCode(f, val) == FormatSymbol(f, val.pkg, val.name)

\* fmt.Sprint(raw) of a value
Sprint(val) ==
    IF val.v = "bool"
    THEN Code(IF val.b THEN <<"t", "r", "u", "e">>
                       ELSE <<"f", "a", "l", "s", "e">>)
    ELSE Text("&{pkg name}")

\* a printer that formats every value with fmt.Sprint
FormatValueSprint(f, val) ==
    [fi |-> f, out |-> Sprint(val), sym |-> FALSE, panic |-> FALSE]

\* the printer makePrinter returns: a value with a GoCode method is
\* formatted by it against imports, any other value by fmt.Sprint
FormatValue(f, val) ==
    IF val.v = "sym"
    THEN LET r == GoCode(f, val)
         IN  [fi |-> r.fi, out |-> Code(r.str), sym |-> TRUE,
              panic |-> r.panic]
    ELSE FormatValueSprint(f, val)

\* strings.Replace(text, placeholder, repl, 1): the first occurrence only
ReplaceFirst(text, which, repl) ==
    LET idx == {i \in 1..Len(text) : text[i] = Placeholder(which)}
    IN  IF idx = {} THEN text
        ELSE LET i == CHOOSE x \in idx : \A y \in idx : x <= y
             IN  SubSeq(text, 1, i - 1) \o repl
                    \o SubSeq(text, i + 1, Len(text))

\* strings.ReplaceAll(text, placeholder, repl)
RECURSIVE ReplaceAll(_, _, _)
ReplaceAll(text, which, repl) ==
    IF text = <<>> THEN <<>>
    ELSE (IF Head(text) = Placeholder(which) THEN repl ELSE <<Head(text)>>)
            \o ReplaceAll(Tail(text), which, repl)

\* t.Execute(imports, wr, data) begins: the template is cloned and given
\* the printer bound to imports. The caller passes a new registry and
\* writer (fresh) or the registry of earlier renders.
ExecuteStart(data, fresh) ==
    /\ exec.pc \in {"idle", "done", "failed"}
    /\ fi' = IF fresh THEN NewFileImports(FilePackage, "nil") ELSE fi
    /\ exec' = [IdleExec EXCEPT !.pc = "pass1", !.data = data,
                                !.fresh = fresh, !.todo = tmpl.nodes]
    /\ wr' = <<>>
    /\ UNCHANGED <<rwMutex, pc, call, ret, returned, tmpl, renders>>
    /\ UNCHANGED pvars

\* pass 1, one node of the template: execT.Execute(pass1Buf, data)
Pass1Step ==
    /\ exec.pc = "pass1"
    /\ exec.todo # <<>>
    /\ LET node == Head(exec.todo)
           rest == Tail(exec.todo)
           val  == IF node.t \in {"field", "if"}
                   THEN exec.data[node.key] ELSE Missing
       IN  CASE node.t = "text" ->
                  /\ exec' = [exec EXCEPT !.todo = rest,
                                !.pass1Buf = @ \o node.chunks]
                  /\ UNCHANGED fi
             [] node.t \in {"header", "imports"} ->
                  /\ exec' = [exec EXCEPT !.todo = rest,
                                !.pass1Buf = @ \o PlaceholderFunc(fi, node.t)]
                  /\ UNCHANGED fi
             [] node.t \in {"field", "if"} /\ val.v = "missing" ->
                  \* missingkey=error: Execute returns the error
                  /\ exec' = [exec EXCEPT !.pc = "failed"]
                  /\ UNCHANGED fi
             [] node.t = "field" /\ val.v # "missing" ->
                  LET r == FormatValue(fi, val)
                  IN  /\ fi' = r.fi
                      /\ exec' = [exec EXCEPT !.todo = rest,
                                    !.pass1Buf = Append(@, r.out),
                                    !.rendered = IF r.sym
                                        THEN @ \cup {[pkg |-> val.pkg,
                                                      out |-> r.out]}
                                        ELSE @]
             [] node.t = "if" /\ val.v # "missing" ->
                  /\ exec' = [exec EXCEPT !.todo =
                                IF val.v = "bool" /\ ~val.b THEN rest
                                ELSE node.body \o rest]
                  /\ UNCHANGED fi
    /\ UNCHANGED <<rwMutex, pc, call, ret, returned, tmpl, wr, renders>>
    /\ UNCHANGED pvars

\* after pass 1: both placeholders are replaced by the import block the
\* registry now gives
Substitute ==
    /\ exec.pc = "pass1"
    /\ exec.todo = <<>>
    /\ LET withImports == ReplaceAll(exec.pass1Buf, "imports", Format(fi, FALSE))
           withHeader  == ReplaceAll(withImports, "header", Format(fi, TRUE))
       IN  exec' = [exec EXCEPT !.pc = "format", !.withHeader = withHeader]
    /\ UNCHANGED <<rvars, tmpl, wr, renders>>
    /\ UNCHANGED pvars

\* a formatter step that prunes whatever the options of the template
RunFormatterAlways(formatter, withHeader) == PruneUnparsed(withHeader)

\* a formatter step that passes the text on when the formatter fails
RunFormatterLenient(formatter, withHeader) ==
    IF formatter = "nil" \/ PruneUnparsed(withHeader).err
    THEN [err |-> FALSE, out |-> withHeader]
    ELSE PruneUnparsed(withHeader)

\* formatted, err := withHeader, error(nil), replaced by the result of
\* t.formatter("", withHeader) when the template has a formatter
RunFormatter(formatter, withHeader) ==
    IF formatter = "nil"
    THEN [err |-> FALSE, out |-> withHeader]
    ELSE PruneUnparsed(withHeader)

\* the formatter, when the template has one: an error ends Execute
FormatOutput ==
    /\ exec.pc = "format"
    /\ LET r == RunFormatter(tmpl.formatter, exec.withHeader)
       IN  IF r.err
           THEN exec' = [exec EXCEPT !.pc = "failed"]
           ELSE exec' = [exec EXCEPT !.pc = "write", !.formatted = r.out]
    /\ UNCHANGED <<rvars, tmpl, wr, renders>>
    /\ UNCHANGED pvars

\* wr.Write([]byte(formatted))
Write ==
    /\ exec.pc = "write"
    /\ wr' = wr \o exec.formatted
    /\ exec' = [exec EXCEPT !.pc = "done"]
    /\ UNCHANGED <<rvars, tmpl, renders>>
    /\ UNCHANGED pvars

\* a template has been parsed; nothing is rendered yet
InitExec ==
    /\ fi = NewFileImports(FilePackage, "nil")
    /\ rwMutex = [w |-> 0, r |-> {}]
    /\ pc = [p \in Procs |-> "idle"]
    /\ call = [p \in Procs |-> NoCall]
    /\ ret = [p \in Procs |-> NoRet]
    /\ returned = [ip \in Paths |-> {}]
    /\ tmpl \in Templates
    /\ exec = IdleExec
    /\ wr = <<>>
    /\ file = <<>>
    /\ pruned = NoResult
    /\ renders = NoRenders

NextExec ==
    \/ \E data \in Datas, fresh \in BOOLEAN : ExecuteStart(data, fresh)
    \/ Pass1Step
    \/ Substitute
    \/ FormatOutput
    \/ Write

SpecExec == InitExec /\ [][NextExec]_vars

\* ------------------------------------------------------------------ renders side by side

\* execT.Printer(false, printer) with the printer set on the parsed template
\* that all renders share instead of the clone
SetPrinterShared(r, id) == [r EXCEPT !.printer = id]

\* execT.Printer(false, t.makePrinter(imports)) in the render id: the clone
\* gets the printer bound to the registry of this render
SetPrinter(r, id) == [r EXCEPT !.run[id].printer = id]

\* t.Execute(imports, wr, data) begins in the render id with a registry of
\* its own: t.tt.Clone() copies the template with its printer, and the
\* clone is given the printer of this render
RenderStart(id, data) ==
    /\ renders.run[id].pc = "idle"
    /\ renders' = SetPrinter(
                     [renders EXCEPT !.run[id].pc = "pass1",
                                     !.run[id].printer = renders.printer,
                                     !.run[id].data = data,
                                     !.run[id].todo = tmpl.nodes],
                     id)
    /\ UNCHANGED <<rvars, tmpl, exec, wr>>
    /\ UNCHANGED pvars

\* pass 1 of the render id, one node of its clone: a value is formatted by
\* the printer of the clone, against the registry that printer is bound to
\* (fmt.Fprint, 0, is bound to none)
RenderPass1(id) ==
    /\ renders.run[id].pc = "pass1"
    /\ LET run  == renders.run[id]
           node == Head(run.todo)
           rest == Tail(run.todo)
           val  == IF node.t \in {"field", "if"}
                   THEN run.data[node.key] ELSE Missing
       IN  IF run.todo = <<>>
           THEN renders' = [renders EXCEPT !.run[id].pc = "done"]
           ELSE CASE node.t = "text" ->
                  renders' = [renders EXCEPT !.run[id].todo = rest,
                                !.run[id].pass1Buf = @ \o node.chunks]
             [] node.t \in {"header", "imports"} ->
                  renders' = [renders EXCEPT !.run[id].todo = rest,
                                !.run[id].pass1Buf =
                                    @ \o PlaceholderFunc(run.imports, node.t)]
             [] node.t \in {"field", "if"} /\ val.v = "missing" ->
                  renders' = [renders EXCEPT !.run[id].pc = "failed"]
             [] node.t = "field" /\ val.v # "missing" ->
                  IF run.printer = 0
                  THEN renders' = [renders EXCEPT !.run[id].todo = rest,
                                     !.run[id].pass1Buf =
                                         Append(@, Sprint(val))]
                  ELSE LET r == FormatValue(
                                    renders.run[run.printer].imports, val)
                       IN  renders' = [renders EXCEPT
                              !.run[run.printer].imports = r.fi,
                              !.run[id].todo = rest,
                              !.run[id].pass1Buf = Append(@, r.out),
                              !.run[id].rendered = IF r.sym
                                  THEN @ \cup {[pkg |-> val.pkg,
                                                name |-> val.name,
                                                out |-> r.out]}
                                  ELSE @]
             [] node.t = "if" /\ val.v # "missing" ->
                  renders' = [renders EXCEPT !.run[id].todo =
                                IF val.v = "bool" /\ ~val.b THEN rest
                                ELSE node.body \o rest]
    /\ UNCHANGED <<rvars, tmpl, exec, wr>>
    /\ UNCHANGED pvars

NextRenders ==
    \/ \E id \in Procs :
            \E data \in {d \in Datas : d.mysym2 # Missing /\ d.cond.b} :
                RenderStart(id, data)
    \/ \E id \in Procs : RenderPass1(id)

SpecRenders == InitExec /\ [][NextRenders]_vars

\* ------------------------------------------------------------------ claims on the registry

\* the indices of the specs registered for an import path
SpecsOf(path) == {i \in 1..Len(fi.specs) : fi.specs[i].pkg.importPath = path}

\* C1: the local aliases of all registered ImportSpecs are pairwise
\* distinct, whatever calls of Add and of symbol formatting were made and
\* whichever suggester is installed.
C1_AliasUnique ==
    \A i, j \in 1..Len(fi.specs) :
        i # j => fi.specs[i].fileLocalPackageName # fi.specs[j].fileLocalPackageName

\* two packages with the same declared name are both registered
C1_Witness ==
    \E i, j \in 1..Len(fi.specs) :
        /\ i # j
        /\ fi.specs[i].pkg.name = fi.specs[j].pkg.name
        /\ fi.specs[i].pkg.importPath # fi.specs[j].pkg.importPath

\* C2: specs holds exactly one ImportSpec for each import path for which an
\* Add has returned a spec, none for the other paths, and byImportPath maps
\* the path to that spec; with the default or any custom suggester.
C2_OneSpecPerPath ==
    \A path \in Paths :
        /\ Cardinality(SpecsOf(path)) <= 1
        /\ returned[path] # {} => Cardinality(SpecsOf(path)) = 1
        /\ \A i \in SpecsOf(path) :
              /\ path \in DOMAIN fi.byImportPath
              /\ fi.byImportPath[path] = fi.specs[i]

\* C3: an Add for an import path for which an earlier Add has returned a
\* spec returns that same spec and leaves the registry as it was, also when
\* the Package value carries another declared name.
C3_AddIdempotent ==
    [][( /\ call'[Caller].op = "Add"
         /\ returned[call'[Caller].pkg.importPath] # {} )
       => /\ fi' = fi
          /\ ret'[Caller].kind = "spec"
          /\ returned[call'[Caller].pkg.importPath] = {ret'[Caller].spec}]_vars

\* a repeated Add has returned the spec registered through another Package
\* value (another declared name) for the same import path
C3_Witness ==
    /\ call[Caller].op = "Add"
    /\ ret[Caller].kind = "spec"
    /\ ret[Caller].spec.pkg.importPath = call[Caller].pkg.importPath
    /\ ret[Caller].spec.pkg.name # call[Caller].pkg.name
    /\ ret[Caller].spec # fi.specs[Len(fi.specs)]

\* the goroutines inside Add's locked region
InAdd == {p \in Procs : pc[p] \in {"Add_check", "Add_suggest", "Add_Unlock"}}

ExpectedAlias(name, taken) ==
    IF name \notin taken THEN name
    ELSE LET free == {k \in 1..(Cardinality(taken) + 1) :
                         (name \o Itoa(k)) \notin taken}
             k == CHOOSE x \in free : \A y \in free : x <= y
         IN  name \o Itoa(k)

C10_SelfReference ==
    [][( /\ call'[Caller].op = "Format"
         /\ call'[Caller].pkg.importPath = fi.filePackage.importPath )
       => /\ ret'[Caller] = RetStr(call'[Caller].name)
          /\ fi' = fi
          /\ rwMutex' = rwMutex]_vars

\* a symbol of the file's package was formatted while imports are registered
C10_Witness ==
    /\ call[Caller].op = "Format"
    /\ call[Caller].pkg.importPath = fi.filePackage.importPath
    /\ ret[Caller] = RetStr(S_Max)
    /\ Len(fi.specs) >= 2

\* ------------------------------------------------------------------ claims on the render

\* the import paths of the import lines of a text
ImportPathsIn(text) ==
    {text[i].path : i \in {n \in 1..Len(text) : text[n].k = "importline"}}

\* the chunks of a text
ChunksOf(text) == {text[i] : i \in 1..Len(text)}

\* the packages other than the file's whose symbols this render formatted
RenderedPackages ==
    {r.pkg : r \in {x \in exec.rendered :
                       x.pkg.importPath # fi.filePackage.importPath}}

\* pass 1 and the substitution are over
Substituted == exec.pc \in {"format", "write", "done"}

\* C5: after a successful Execute with pruning of a template that emitted
\* a placeholder, the written text has an import line for the package of
\* every symbol that was rendered as alias.Name, whether the package name
\* was inferred from the path or given explicitly.
C5_ImportsComplete ==
    ( /\ exec.pc = "done"
      /\ tmpl.formatter = "PruneUnparsed"
      /\ \E c \in ChunksOf(exec.pass1Buf) : c.k = "placeholder" )
    => \A pk \in RenderedPackages : pk.importPath \in ImportPathsIn(wr)

\* C6: once the placeholders are substituted, the text has no placeholder
\* left and has an import line for the package of every symbol formatted
\* during the render, also for the symbols that follow the placeholder in
\* the template; each of these packages is registered.
C6_PhaseOrdering ==
    Substituted =>
        /\ \A c \in ChunksOf(exec.withHeader) : c.k # "placeholder"
        /\ \A pk \in RenderedPackages :
              /\ pk.importPath \in DOMAIN fi.byImportPath
              /\ pk.importPath \in ImportPathsIn(exec.withHeader)

\* the placeholder came first in the template and two symbols of different
\* packages were formatted after it
C6_Witness ==
    /\ exec.pc = "format"
    /\ tmpl.nodes = TestTemplate
    /\ exec.pass1Buf[2].k = "placeholder"
    /\ Cardinality({pk.importPath : pk \in RenderedPackages}) = 2

\* the import paths of the packages (other than the file's) of the symbols
\* that the control flow of the template reaches with the given data
RECURSIVE ReachedPaths(_, _)
ReachedPaths(nodes, data) ==
    IF nodes = <<>> THEN {}
    ELSE LET n == Head(nodes)
         IN  IF n.t = "if"
             THEN IF data[n.key].v = "bool" /\ ~data[n.key].b
                  THEN ReachedPaths(Tail(nodes), data)
                  ELSE ReachedPaths(n.body, data)
                          \cup ReachedPaths(Tail(nodes), data)
             ELSE (IF /\ n.t = "field"
                      /\ data[n.key].v = "sym"
                      /\ data[n.key].pkg.importPath # FilePackage.importPath
                   THEN {data[n.key].pkg.importPath} ELSE {})
                      \cup ReachedPaths(Tail(nodes), data)

\* C7: in a render against a new registry, the import lines that the
\* substitution adds and the import paths registered are exactly those of
\* the symbols the executed control flow reaches: a symbol formatted only in
\* a conditional branch is imported when the input is true, and is neither
\* imported nor registered when it is false.
C7_OnlyReachedSymbols ==
    (Substituted /\ exec.fresh) =>
        /\ ImportPathsIn(exec.withHeader) \ ImportPathsIn(exec.pass1Buf)
              = ReachedPaths(tmpl.nodes, exec.data)
        /\ DOMAIN fi.byImportPath = ReachedPaths(tmpl.nodes, exec.data)

\* the conditional template was rendered with the input false: the package
\* of the symbol in the branch is neither imported nor registered
C7_Witness ==
    /\ exec.pc = "done"
    /\ exec.fresh
    /\ tmpl.nodes = CondTemplate
    /\ exec.data.cond = BoolValue(FALSE)
    /\ exec.data.mysym2.v = "sym"
    /\ exec.data.mysym2.pkg.importPath # FilePackage.importPath
    /\ exec.data.mysym2.pkg.importPath # exec.data.mysym.pkg.importPath
    /\ exec.data.mysym2.pkg.importPath \notin DOMAIN fi.byImportPath

S_math2 == <<"m", "a", "t", "h", "2">>

\* C9: the render of the test's template against a new registry, with a
\* symbol of "math" and then one of "alternative/math", imports "math"
\* unaliased and "alternative/math" as math2, and prints math2.Max.
C9_SecondIsMath2 ==
    ( /\ exec.pc = "done"
      /\ exec.fresh
      /\ tmpl.nodes = TestTemplate
      /\ exec.data.mysym = SymValue(AssumedPackageName(S_math), S_Max)
      /\ exec.data.mysym2 = SymValue(AssumedPackageName(S_altmath), S_Max) )
    => /\ ImportLine(<<>>, S_math) \in ChunksOf(wr)
       /\ ImportLine(S_math2, S_altmath) \in ChunksOf(wr)
       /\ Code(S_math2 \o <<".">> \o S_Max) \in ChunksOf(wr)

\* ------------------------------------------------------------------ claims on formatting

\* C11: FormatEnsureImported of a symbol of a package other than the
\* file's, when it returns, has the package registered (the registry is
\* untouched when it was registered before), returns alias.name with the
\* alias the registry holds for the import path after the call, and every
\* call made so far for that import path was given this one alias.
C11_FormatQualified ==
    [][( /\ call'[Caller].op = "Format"
         /\ call'[Caller].pkg.importPath # fi.filePackage.importPath
         /\ ret'[Caller].kind = "string" )
       => LET path == call'[Caller].pkg.importPath
          IN  /\ path \in DOMAIN fi'.byImportPath
              /\ path \in DOMAIN fi.byImportPath => fi' = fi
              /\ ret'[Caller].str =
                    fi'.byImportPath[path].fileLocalPackageName
                        \o <<".">> \o call'[Caller].name
              /\ \A sp \in returned'[path] :
                    sp.fileLocalPackageName =
                        fi'.byImportPath[path].fileLocalPackageName]_vars

\* a symbol was formatted with an alias that is not the declared name of
\* its package, for an import path that had been used before
C11_Witness ==
    /\ call[Caller].op = "Format"
    /\ ret[Caller].kind = "string"
    /\ ret[Caller].spec # NoSpec
    /\ ret[Caller].spec.fileLocalPackageName # call[Caller].pkg.name
    /\ ret[Caller].str = ret[Caller].spec.fileLocalPackageName
                            \o <<".">> \o S_Max
    /\ Len(fi.specs) >= 2
    /\ ret[Caller].spec # fi.specs[Len(fi.specs)]

\* ------------------------------------------------------------------ claims on the pruner

\* the import lines of a text
ImportLinesIn(text) ==
    {text[i] : i \in {n \in 1..Len(text) : text[n].k = "importline"}}

\* the line is exempt from pruning: named _ or ., or the import of "C"
Exempt(line) ==
    \/ line.name = S_blank
    \/ line.name = <<".">>
    \/ (line.id = "" /\ line.path = <<"C">>)

\* the effective alias of an import line: its name, or the name inferred
\* from the import path as collectImports reads it
EffectiveAlias(line) ==
    IF line.name # <<>> THEN line.name
    ELSE AssumedName(TrimQuotes(PathValue(line)))

\* PruneUnparsed has returned a text
Pruned == pruned.state = "returned" /\ ~pruned.err

\* C12: after pruning, no import line of the source that is not exempt and
\* whose effective alias has no recorded reference is left in the output;
\* for each such line, also when another line has the same effective alias.
C12_UnusedRemoved ==
    Pruned =>
        \A line \in ImportLinesIn(file) :
            (~Exempt(line) /\ EffectiveAlias(line) \notin collectReferences(file))
            => line \notin ImportLinesIn(pruned.out)

\* C13: every import line of the source whose effective alias is the left
\* side of a recorded reference is in the pruned output.
C13_UsedKept ==
    Pruned =>
        \A line \in ImportLinesIn(file) :
            EffectiveAlias(line) \in collectReferences(file)
            => line \in ImportLinesIn(pruned.out)

\* "fmt" unused and "os" used through os.Open: only "os" is left
C13_Witness ==
    /\ Pruned
    /\ ImportLinesIn(file) = {ImportLine(<<>>, S_fmt), ImportLine(<<>>, S_os)}
    /\ Code(S_osOpen) \in ChunksOf(file)
    /\ ImportLinesIn(pruned.out) = {ImportLine(<<>>, S_os)}

\* C14: every exempt import line of the source (named _ or ., or "C") is in
\* the pruned output, referenced or not, whatever else is deleted.
C14_ExemptKept ==
    Pruned =>
        \A line \in ImportLinesIn(file) :
            Exempt(line) => line \in ImportLinesIn(pruned.out)

\* an import named _ was kept while the other import of the source was
\* deleted, and nothing refers to either
C14_Witness ==
    /\ Pruned
    /\ collectReferences(file) = {}
    /\ ImportLine(S_blank, S_pkg) \in ImportLinesIn(file)
    /\ Cardinality(ImportLinesIn(file)) = 2
    /\ ImportLinesIn(pruned.out) = {ImportLine(S_blank, S_pkg)}

\* C18: when PruneUnparsed returns an error, for a text that does not parse
\* or for a deletion reported as failed, the text it returns is empty.
C18_ErrorNoText ==
    (pruned.state = "returned" /\ pruned.err) => pruned.out = <<>>

\* the source parsed and the deletion of a marked import failed, with
\* another import of the source marked for deletion too
C18_Witness ==
    /\ pruned.state = "returned"
    /\ pruned.err
    /\ ParseOk(file)
    /\ Cardinality(Fixes(file)) = 2
    /\ PrintWithout(file, Fixes(file)) # file

\* ------------------------------------------------------------------ claims on failures

\* C15: when Execute has returned an error of the template execution or of
\* the formatter, nothing is written to the writer; and text is written
\* only by an Execute whose pass 1 ran to the end, whose placeholders are
\* all substituted and whose formatter, if any, succeeded.
C15_NoOutputOnError ==
    /\ exec.pc = "failed" => wr = <<>>
    /\ wr # <<>> =>
          /\ exec.pc = "done"
          /\ exec.todo = <<>>
          /\ \A c \in ChunksOf(exec.withHeader) : c.k # "placeholder"
          /\ tmpl.formatter = "PruneUnparsed" => ~PruneUnparsed(exec.withHeader).err

\* pass 1 and the substitution produced a text, the formatter refused it
\* and Execute has failed
C15_Witness ==
    /\ exec.pc = "failed"
    /\ exec.withHeader # <<>>
    /\ tmpl.formatter = "PruneUnparsed"
    /\ PruneUnparsed(exec.withHeader).err
    /\ wr = <<>>

\* the declared name and the name followed by 1 .. maxIterations are all
\* aliases of the registry
AllTaken(f, name) ==
    /\ name \in DOMAIN f.byLocalPackageName
    /\ \A k \in 1..maxIterations : (name \o Itoa(k)) \in DOMAIN f.byLocalPackageName

\* C16: an Add of an unregistered package with the default suggester panics
\* and leaves the registry as it was exactly when the declared name and the
\* name followed by 1 .. 1000 are all taken; otherwise it returns a spec
\* that it has registered.
C16_ExhaustionPanics ==
    [][( /\ call'[Caller].op = "Add"
         /\ fi.suggestPackageNames = "nil"
         /\ call'[Caller].pkg.importPath \notin DOMAIN fi.byImportPath )
       => IF AllTaken(fi, call'[Caller].pkg.name)
          THEN /\ ret'[Caller].kind = "panic"
               /\ fi' = fi
          ELSE /\ ret'[Caller].kind = "spec"
               /\ ret'[Caller].spec # NoSpec
               /\ fi'.specs = Append(fi.specs, ret'[Caller].spec)
               /\ fi'.byImportPath[call'[Caller].pkg.importPath]
                     = ret'[Caller].spec]_vars

\* an Add has panicked on a registry in which math and math1 .. math1000 are
\* taken, after an Add that was given the last free name, math1000
C16_Witness ==
    /\ call[Caller].op = "Add"
    /\ ret[Caller].kind = "panic"
    /\ call[Caller].pkg.name = S_math
    /\ AllTaken(fi, S_math)
    /\ fi.specs[Len(fi.specs)].fileLocalPackageName = S_math \o Itoa(maxIterations)
    /\ fi.specs[Len(fi.specs)].pkg \in ExhaustPackages

\* ------------------------------------------------------------------ claims on waiting

\* C17: every call of Add, Find, List and String that is in progress
\* completes, with the lock no longer held by its goroutine, whatever
\* suggester is installed
C17_NoBlocking ==
    \A p \in Procs :
        (pc[p] \notin {"idle", "done"})
            ~> (pc[p] = "done" /\ rwMutex.w # p /\ p \notin rwMutex.r)

\* ------------------------------------------------------------------ claims on listing

\* the line of the import block a spec stands for
ExpectedLine(spec) ==
    ImportLine(IF spec.isExplicit THEN spec.fileLocalPackageName ELSE <<>>,
               spec.pkg.importPath)

\* the section of a line: 1 without a name, 2 with a name other than _,
\* 3 with the name _
SectionOf(line) ==
    IF line.name = <<>> THEN 1 ELSE IF line.name # S_blank THEN 2 ELSE 3

\* C19: the block String returns opens and closes the declaration and holds
\* between them one line for every registered spec and nothing else but
\* empty lines; two lines that follow each other are of the same section
\* and in ascending order of their import paths; an empty line stands
\* between two lines only, the first of an earlier section than the second
C19_BlockLayout ==
    call[Caller].op = "String" =>
        LET out  == ret[Caller].str
            n    == Len(out)
            body == SubSeq(out, 2, n - 1)
            IsLine(i) == body[i].k = "importline"
            LinesOf(spec) == {k \in DOMAIN fi.specs :
                                ExpectedLine(fi.specs[k]) = ExpectedLine(spec)}
        IN  /\ n >= 2
            /\ out[1] = ImportOpen
            /\ out[n] = ImportClose
            /\ \A i \in DOMAIN body : IsLine(i) \/ body[i] = Blank
            /\ Cardinality({i \in DOMAIN body : IsLine(i)}) = Len(fi.specs)
            /\ \A j \in DOMAIN fi.specs :
                    Cardinality({i \in DOMAIN body :
                                    body[i] = ExpectedLine(fi.specs[j])})
                        = Cardinality(LinesOf(fi.specs[j]))
            /\ \A i \in 1..(Len(body) - 1) :
                    IsLine(i) /\ IsLine(i + 1) =>
                        /\ SectionOf(body[i]) = SectionOf(body[i + 1])
                        /\ ~StrLess(body[i + 1].path, body[i].path)
            /\ \A i \in DOMAIN body :
                    body[i] = Blank =>
                        /\ 1 < i
                        /\ i < Len(body)
                        /\ IsLine(i - 1)
                        /\ IsLine(i + 1)
                        /\ SectionOf(body[i - 1]) < SectionOf(body[i + 1])

\* String has formatted a registry with a spec of each of the three sections
C19_Witness ==
    /\ call[Caller].op = "String"
    /\ Len(ret[Caller].str) = 7
    /\ \A sec \in 1..3 :
            \E j \in DOMAIN fi.specs :
                SectionOf(ExpectedLine(fi.specs[j])) = sec

\* C20: the slice List returns holds every registered spec once and nothing
\* else, in ascending order of the import paths
C20_ListSorted ==
    call[Caller].op = "List" =>
        LET out == ret[Caller].list
        IN  /\ Len(out) = Len(fi.specs)
            /\ \A j \in DOMAIN fi.specs :
                    Cardinality({i \in DOMAIN out : out[i] = fi.specs[j]}) = 1
            /\ \A i \in 1..(Len(out) - 1) :
                    ~StrLess(out[i + 1].pkg.importPath, out[i].pkg.importPath)

\* List has returned specs that were registered in another order than that
\* of their import paths, one of them under an alias
C20_Witness ==
    /\ call[Caller].op = "List"
    /\ Len(fi.specs) >= 2
    /\ ret[Caller].list # fi.specs
    /\ \E j \in DOMAIN fi.specs : fi.specs[j].isExplicit

\* ------------------------------------------------------------------ claims on reads

\* the specs of f registered for the import path of pkg
SpecsFor(f, pkg) ==
    {f.specs[j] : j \in {k \in DOMAIN f.specs :
                            f.specs[k].pkg.importPath = pkg.importPath}}

C22_AliasHonoured ==
    [][(/\ call'[Caller].op = "Add"
        /\ fi.suggestPackageNames = "nil"
        /\ call'[Caller].pkg.importPath \notin DOMAIN fi.byImportPath
        /\ ret'[Caller].kind = "spec")
        => LET alias == call'[Caller].alias
               name  == call'[Caller].pkg.name
               spec  == ret'[Caller].spec
           IN  /\ (alias # <<>> /\ alias \notin DOMAIN fi.byLocalPackageName)
                    => spec.fileLocalPackageName = alias
               /\ (alias = <<>> /\ name \notin DOMAIN fi.byLocalPackageName)
                    => (~spec.isExplicit /\ spec.fileLocalPackageName = name)]_vars

\* ------------------------------------------------------------------ claims on name inference

\* the parts of a string between the occurrences of the character sep
RECURSIVE SplitOn(_, _)
SplitOn(p, sep) ==
    LET idx == {i \in 1..Len(p) : p[i] = sep}
    IN  IF idx = {} THEN <<p>>
        ELSE LET i == CHOOSE x \in idx : \A y \in idx : x <= y
             IN  <<SubSeq(p, 1, i - 1)>>
                    \o SplitOn(SubSeq(p, i + 1, Len(p)), sep)

\* the letter v followed by digits, at least one
IsVersion(seg) ==
    /\ Len(seg) >= 2
    /\ seg[1] = "v"
    /\ \A i \in 2..Len(seg) : seg[i] \in {"0", "1", "2", "3", "4",
                                         "5", "6", "7", "8", "9"}

\* the name the statement gives for a path: the last segment, or the one
\* before it when the last is a version (and there is one before it),
\* without a leading go- and cut before the first character that is not a
\* letter, a digit or _
InferredName(p) ==
    LET segs == SplitOn(p, "/")
        n    == Len(segs)
        seg  == IF IsVersion(segs[n]) /\ n >= 2 THEN segs[n - 1] ELSE segs[n]
        rest == IF Len(seg) >= 3 /\ SubSeq(seg, 1, 3) = <<"g", "o", "-">>
                THEN SubSeq(seg, 4, Len(seg)) ELSE seg
        Ident(ch) == ch \in LowerSet \cup UpperSet \cup DigitSet \cup {"_"}
        len  == CHOOSE k \in 0..Len(rest) :
                    /\ \A i \in 1..k : Ident(rest[i])
                    /\ k < Len(rest) => ~Ident(rest[k + 1])
    IN  SubSeq(rest, 1, len)

\* C23: AssumedPackageName returns a Package with the import path it was
\* given and the name the statement gives for that path
C23_NameInference ==
    ret[Caller].kind = "package" =>
        /\ ret[Caller].spec.pkg.importPath = call[Caller].name
        /\ ret[Caller].spec.pkg.name = InferredName(call[Caller].name)

\* ------------------------------------------------------------------ claims on substitution

\* text with every placeholder token replaced by what it stands for in
\* registry f
RECURSIVE Expanded(_, _)
Expanded(text, f) ==
    IF text = <<>> THEN <<>>
    ELSE (IF Head(text).k = "placeholder"
          THEN Format(f, Head(text).id = "header")
          ELSE <<Head(text)>>) \o Expanded(Tail(text), f)

\* the parts a occur in b one after the other
OccursIn(a, b) ==
    \E i \in 0..(Len(b) - Len(a)) : SubSeq(b, i + 1, i + Len(a)) = a

\* C24: once the placeholders are substituted, the text holds no placeholder
\* token and is the text of pass 1 with each imports token replaced by the
\* import block of the registry and each header token by the package clause
\* and the import block; the text of the imports token does not occur in the
\* header token
C24_Substitution ==
    exec.pc \in {"format", "write", "done"} =>
        /\ \A i \in DOMAIN exec.withHeader :
                exec.withHeader[i].k # "placeholder"
        /\ exec.withHeader = Expanded(exec.pass1Buf, fi)
        /\ ~OccursIn(Placeholder("imports").str, Placeholder("header").str)

\* an Execute has ended well on a text of pass 1 with two imports tokens,
\* with an import registered
C24_Witness ==
    /\ exec.pc = "done"
    /\ Cardinality({i \in DOMAIN exec.pass1Buf :
                        exec.pass1Buf[i] = Placeholder("imports")}) = 2
    /\ fi.specs # <<>>

\* ------------------------------------------------------------------ claims on renders side by side

\* C25: whatever renders of one template run side by side, each with its
\* own registry: the registry of a render holds exactly the packages of the
\* symbols this render has formatted (the package of the file aside), each
\* symbol was written with the alias its package has in the registry of its
\* own render, and the parsed template and its printer stay as they were
C25_RenderIsolation ==
    [][/\ tmpl' = tmpl
       /\ renders'.printer = 0
       /\ \A id \in Procs :
            LET run == renders'.run[id]
            IN  /\ {run.imports.specs[j].pkg : j \in DOMAIN run.imports.specs}
                     = {x.pkg : x \in {y \in run.rendered :
                                         y.pkg.importPath
                                             # FilePackage.importPath}}
                /\ \A x \in run.rendered :
                     x.out = Code(
                        IF x.pkg.importPath = FilePackage.importPath
                        THEN x.name
                        ELSE run.imports.byImportPath[x.pkg.importPath]
                                .fileLocalPackageName \o <<".">> \o x.name)
                /\ run.pc = "done" =>
                     Cardinality(run.rendered) >= 1]_vars

\* two renders have ended in which "alternative/math" got different aliases
C25_Witness ==
    /\ renders.run[1].pc = "done"
    /\ renders.run[2].pc = "done"
    /\ S_altmath \in DOMAIN renders.run[1].imports.byImportPath
    /\ S_altmath \in DOMAIN renders.run[2].imports.byImportPath
    /\ renders.run[1].imports.byImportPath[S_altmath].fileLocalPackageName
         # renders.run[2].imports.byImportPath[S_altmath].fileLocalPackageName

\* ------------------------------------------------------------------ claims on the formatter

\* C26: an Execute of a template made with KeepUnusedImports does not fail
\* once the placeholders are substituted and writes the substituted text as
\* it is; an Execute of a template without the option that ends well has
\* written what PruneUnparsed returns for the substituted text
C26_PruningOptional ==
    /\ (tmpl.formatter = "nil" /\ exec.withHeader # <<>>) =>
            exec.pc # "failed"
    /\ exec.pc = "done" =>
            IF tmpl.formatter = "nil"
            THEN wr = exec.withHeader
            ELSE /\ ~PruneUnparsed(exec.withHeader).err
                 /\ wr = PruneUnparsed(exec.withHeader).out

\* an Execute of a template made with KeepUnusedImports has ended well on a
\* text that does not parse, and another could have lost an import
C26_Witness ==
    /\ exec.pc = "done"
    /\ tmpl.formatter = "nil"
    /\ \/ PruneUnparsed(exec.withHeader).err
       \/ PruneUnparsed(exec.withHeader).out # exec.withHeader

\* ------------------------------------------------------------------ claims on references

\* the aliases the statement counts as referred to in a text: the A of the
\* expressions A.B... in which A is not declared in the text and B begins
\* with an upper-case letter
ReferredTo(text) ==
    {SplitOn(text[i].str, ".")[1] :
        i \in {n \in DOMAIN text :
                 /\ text[n].k = "code"
                 /\ LET parts == SplitOn(text[n].str, ".")
                    IN  /\ Len(parts) >= 2
                        /\ \A j \in DOMAIN text :
                              ~(text[j].k = "decl" /\ text[j].name = parts[1])
                        /\ parts[2] # <<>>
                        /\ parts[2][1] \in {"B", "M", "O", "X"}}}

\* C27: for a source text that parses, the references the pruner collects
\* are those the statement counts, and the import of an identifier is in
\* the fixes to delete only when it is not among them
C27_ReferenceEvidence ==
    (pruned.state = "returned" /\ ParseOk(file)) =>
        /\ collectReferences(file) = ReferredTo(file)
        /\ \A imp \in Fixes(file) :
                importIdentifier(imp) \notin ReferredTo(file)

\* the pruner has run on a text with a selector on a declared x, one with a
\* lower-case right side, one on a selector, and two that count
C27_Witness ==
    /\ pruned.state = "returned"
    /\ ParseOk(file)
    /\ \A i \in DOMAIN BodyParts : \E j \in DOMAIN file : file[j] = BodyParts[i]
    /\ ReferredTo(file) = {S_os, S_bar}

\* ------------------------------------------------------------------ claims on stability

\* C28: no operation on a registry takes a spec out of specs, moves it, or
\* changes what byImportPath and byLocalPackageName hold for a key they
\* have, so Find keeps returning the spec it returned (an Execute that is
\* given a new registry starts on another registry)
C28_Stable ==
    [][~(exec'.pc = "pass1" /\ exec.pc # "pass1" /\ exec'.fresh) =>
          /\ Len(fi'.specs) >= Len(fi.specs)
          /\ \A i \in DOMAIN fi.specs : fi'.specs[i] = fi.specs[i]
          /\ \A path \in DOMAIN fi.byImportPath :
                /\ path \in DOMAIN fi'.byImportPath
                /\ fi'.byImportPath[path] = fi.byImportPath[path]
          /\ \A a \in DOMAIN fi.byLocalPackageName :
                /\ a \in DOMAIN fi'.byLocalPackageName
                /\ fi'.byLocalPackageName[a] = fi.byLocalPackageName[a]]_vars

\* Find has returned the spec registered first, under an alias, after
\* two other packages were registered
C28_Witness ==
    /\ call[Caller].op = "Find"
    /\ Len(fi.specs) >= 3
    /\ ret[Caller].spec = fi.specs[1]
    /\ fi.specs[1].isExplicit

\* ------------------------------------------------------------------ claims on a failed Add

\* C29: the step in which an Add finds that no suggestion was accepted and
\* panics leaves the registry as it was, and once that Add has ended its
\* goroutine does not hold the write lock
C29_PanicLeavesRegistry ==
    [][\A p \in Procs :
          /\ (ret'[p].kind = "panic" /\ ret[p].kind # "panic") => fi' = fi
          /\ (pc'[p] = "done" /\ ret'[p].kind = "panic") => rwMutex'.w # p]_vars

\* an Add has panicked on a registry with an import, and another goroutine
\* has taken the write lock since
C29_Witness ==
    \E p, q \in Procs :
        /\ p # q
        /\ pc[p] = "done"
        /\ ret[p].kind = "panic"
        /\ fi.specs # <<>>
        /\ rwMutex.w = q

\* ------------------------------------------------------------------ claims on snapshots

\* C30: the slice a List call returns while other goroutines call Add holds
\* the specs the registry has at the moment of the copy, each once, and
\* every one of them is the spec byLocalPackageName has for its alias and
\* byImportPath has for its import path
C30_Snapshot ==
    [][\A p \in Procs :
          (pc[p] = "Read_read" /\ pc'[p] = "done" /\ call[p].op = "List") =>
              LET out == ret'[p].list
              IN  /\ Len(out) = Len(fi.specs)
                  /\ {out[i] : i \in DOMAIN out}
                        = {fi.specs[i] : i \in DOMAIN fi.specs}
                  /\ \A i, j \in DOMAIN out : i # j => out[i] # out[j]
                  /\ \A i \in DOMAIN out :
                        /\ MapGet(fi.byLocalPackageName,
                                  out[i].fileLocalPackageName) = out[i]
                        /\ MapGet(fi.byImportPath,
                                  out[i].pkg.importPath) = out[i]]_vars

\* ------------------------------------------------------------------ claims on pruning twice

\* C31: PruneUnparsed on the text a successful PruneUnparsed returned
\* succeeds and returns that text again: no import is removed by the
\* second call
C31_PruneIdempotent ==
    pruned.state = "again" => (~pruned.err /\ pruned.out = file)

====
